---- MODULE Spec2Model ----
(***************************************************************************)
(* agentauth: the request-handling pipeline of AuthProxy                   *)
(* (handleRequest, forward, deny, audit) and isPathAllowed.                *)
(*                                                                         *)
(* Text is a sequence of one-character strings, so that indexOf,           *)
(* substring, decodeURIComponent and the URL parser are computed character *)
(* by character, as the code computes them.                                *)
(***************************************************************************)
EXTENDS Integers, Sequences, FiniteSets, TLC

(***************************************************************************)
(* String primitives (JavaScript String methods, 1-based positions here).  *)
(***************************************************************************)

\* s.substring(from-1): the suffix of s starting at position from
SubstringFrom(s, from) == SubSeq(s, from, Len(s))

\* s.indexOf(c, from-1) as a 1-based position, 0 when absent
RECURSIVE IndexOf(_, _, _)
IndexOf(s, c, from) ==
  IF from > Len(s) THEN 0
  ELSE IF s[from] = c THEN from
  ELSE IndexOf(s, c, from + 1)

\* s.startsWith(p)
StartsWith(s, p) == Len(p) <= Len(s) /\ SubSeq(s, 1, Len(p)) = p

\* s.endsWith(p)
EndsWith(s, p) == Len(p) <= Len(s) /\ SubSeq(s, Len(s) - Len(p) + 1, Len(s)) = p

\* s.includes(p)
Includes(s, p) == \E i \in 1..(Len(s) - Len(p) + 1) : SubSeq(s, i, i + Len(p) - 1) = p

\* s.split('?')[0]
BeforeQuery(s) ==
  LET q == IndexOf(s, "?", 1) IN IF q = 0 THEN s ELSE SubSeq(s, 1, q - 1)

(***************************************************************************)
(* Character codes: the printable ASCII range, tab, newline and return.    *)
(***************************************************************************)
Printable ==
  << " ", "!", "\"", "#", "$", "%", "&", "'", "(", ")", "*", "+", ",", "-", ".", "/",
     "0", "1", "2", "3", "4", "5", "6", "7", "8", "9", ":", ";", "<", "=", ">", "?",
     "@", "A", "B", "C", "D", "E", "F", "G", "H", "I", "J", "K", "L", "M", "N", "O",
     "P", "Q", "R", "S", "T", "U", "V", "W", "X", "Y", "Z", "[", "\\", "]", "^", "_",
     "grave", "a", "b", "c", "d", "e", "f", "g", "h", "i", "j", "k", "l", "m", "n", "o",
     "p", "q", "r", "s", "t", "u", "v", "w", "x", "y", "z", "{", "|", "}", "~" >>

\* String.fromCharCode for a code below 128
Chr(code) ==
  IF code >= 32 /\ code <= 126 THEN Printable[code - 31]
  ELSE IF code = 9 THEN "\t"
  ELSE IF code = 10 THEN "\n"
  ELSE IF code = 13 THEN "\r"
  ELSE "ctl" \o ToString(code)

\* the code of an ASCII character, 128 for any other character
Code(c) ==
  IF \E n \in 0..127 : Chr(n) = c THEN CHOOSE n \in 0..127 : Chr(n) = c ELSE 128

HexDigits == << "0", "1", "2", "3", "4", "5", "6", "7", "8", "9",
                "A", "B", "C", "D", "E", "F" >>

\* the value of a hexadecimal digit, -1 for any other character
HexVal(c) ==
  IF \E n \in 1..16 : HexDigits[n] = c THEN (CHOOSE n \in 1..16 : HexDigits[n] = c) - 1
  ELSE IF c = "a" THEN 10 ELSE IF c = "b" THEN 11 ELSE IF c = "c" THEN 12
  ELSE IF c = "d" THEN 13 ELSE IF c = "e" THEN 14 ELSE IF c = "f" THEN 15
  ELSE -1

\* the lowercase letter of every uppercase ASCII letter
UpperToLower == [c \in { Chr(n) : n \in 65..90 } |-> Chr(Code(c) + 32)]

\* c.toLowerCase() of one character
LowerChar(c) == IF c \in DOMAIN UpperToLower THEN UpperToLower[c] ELSE c

\* s.toLowerCase()
Lower(s) == [i \in 1..Len(s) |-> LowerChar(s[i])]

(***************************************************************************)
(* decodeURIComponent: every %XX is one byte; bytes below 0x80 are ASCII   *)
(* characters, a lead byte takes its continuation bytes (each a %XX in     *)
(* 0x80..0xBF) and yields one non-ASCII character; anything else throws    *)
(* URIError.  The result is [ok, text].                                    *)
(***************************************************************************)

\* the byte value of the escape at position i of s, -1 when there is none
EscapeAt(s, i) ==
  IF i + 2 <= Len(s) /\ s[i] = "%" /\ HexVal(s[i + 1]) >= 0 /\ HexVal(s[i + 2]) >= 0
  THEN 16 * HexVal(s[i + 1]) + HexVal(s[i + 2])
  ELSE -1

\* the number of continuation bytes a UTF-8 lead byte asks for, -1 when it is no lead byte
Continuations(b) ==
  IF b >= 194 /\ b <= 223 THEN 1
  ELSE IF b >= 224 /\ b <= 239 THEN 2
  ELSE IF b >= 240 /\ b <= 244 THEN 3
  ELSE -1

IsContinuation(b) == b >= 128 /\ b <= 191

RECURSIVE DecodeFrom(_, _, _)
DecodeFrom(s, i, acc) ==
  IF i > Len(s) THEN [ok |-> TRUE, text |-> acc]
  ELSE IF s[i] # "%" THEN DecodeFrom(s, i + 1, Append(acc, s[i]))
  ELSE
    LET b == EscapeAt(s, i) IN
    IF b < 0 THEN [ok |-> FALSE, text |-> << >>]
    ELSE IF b < 128 THEN DecodeFrom(s, i + 3, Append(acc, Chr(b)))
    ELSE
      LET n == Continuations(b) IN
      IF n < 0 \/ \E k \in 1..n : ~IsContinuation(EscapeAt(s, i + 3 * k))
      THEN [ok |-> FALSE, text |-> << >>]
      ELSE DecodeFrom(s, i + 3 * (n + 1),
                      Append(acc, "u" \o ToString(b) \o "-" \o ToString(EscapeAt(s, i + 3))))

decodeURIComponent(s) == DecodeFrom(s, 1, << >>)

(***************************************************************************)
(* isPathAllowed                                                           *)
(***************************************************************************)

\* a match that takes every pattern as a prefix
PatternMatchesAnyPrefix(path, pattern) ==
  IF EndsWith(pattern, << "*" >>)
  THEN StartsWith(path, SubSeq(pattern, 1, Len(pattern) - 1))
  ELSE StartsWith(path, pattern)

\* one pattern of allowedPaths against the path
PatternMatches(path, pattern) ==
  IF EndsWith(pattern, << "*" >>)
  THEN StartsWith(path, SubSeq(pattern, 1, Len(pattern) - 1))
  ELSE path = pattern

\* isPathAllowed(path, allowedPaths); an absent list is the empty sequence
isPathAllowed(path, allowedPaths) ==
  IF Len(allowedPaths) = 0 THEN TRUE
  ELSE \E k \in 1..Len(allowedPaths) : PatternMatches(path, allowedPaths[k])

(***************************************************************************)
(* new URL(input, base) for an input that starts with "/" and a base with  *)
(* a special scheme (http, https): the WHATWG URL parser's relative slash, *)
(* authority, host, path and query states.  The result is                  *)
(* [ok, scheme, host, port, pathname, search]; ok = FALSE is the TypeError *)
(* the constructor throws.                                                 *)
(***************************************************************************)

\* the two hexadecimal digits of a byte, after "%"
PercentByte(n) == << "%", HexDigits[(n \div 16) + 1], HexDigits[(n % 16) + 1] >>

\* C0 control or space
IsC0OrSpace(c) == Code(c) <= 32

RECURSIVE StripTrailing(_)
StripTrailing(s) ==
  IF Len(s) > 0 /\ IsC0OrSpace(s[Len(s)]) THEN StripTrailing(SubSeq(s, 1, Len(s) - 1)) ELSE s

RECURSIVE StripLeading(_)
StripLeading(s) ==
  IF Len(s) > 0 /\ IsC0OrSpace(s[1]) THEN StripLeading(SubSeq(s, 2, Len(s))) ELSE s

IsTabOrNewline(c) == c \in { "\t", "\n", "\r" }

\* the parser's preprocessing of its input
Preprocess(s) == SelectSeq(StripLeading(StripTrailing(s)), LAMBDA c : ~IsTabOrNewline(c))

\* in a special scheme a backslash is a path separator as well
IsSlash(c) == c = "/" \/ c = "\\"

\* the path percent-encode set (ASCII part)
InPathEncodeSet(c) ==
  LET n == Code(c) IN
  n <= 32 \/ n = 127 \/ c \in { "\"", "#", "<", ">", "?", "grave", "{", "}" }

PathEncode(c) == IF InPathEncodeSet(c) THEN PercentByte(Code(c)) ELSE << c >>

\* the special-query percent-encode set (ASCII part)
InQueryEncodeSet(c) ==
  LET n == Code(c) IN
  n <= 32 \/ n = 127 \/ c \in { "\"", "#", "<", ">", "'" }

QueryEncode(c) == IF InQueryEncodeSet(c) THEN PercentByte(Code(c)) ELSE << c >>

IsSingleDot(buf) == Lower(buf) \in { << "." >>, << "%", "2", "e" >> }

IsDoubleDot(buf) ==
  Lower(buf) \in { << ".", "." >>, << ".", "%", "2", "e" >>,
                   << "%", "2", "e", "." >>, << "%", "2", "e", "%", "2", "e" >> }

\* the path state from position i: [segs, next], next the position of the
\* "?" or "#" that ends the path, or Len(s) + 1
RECURSIVE PathState(_, _, _, _)
PathState(s, i, segs, buf) ==
  LET atEnd == i > Len(s) \/ s[i] \in { "?", "#" }
      slash == ~atEnd /\ IsSlash(s[i])
      popped == IF Len(segs) > 0 THEN SubSeq(segs, 1, Len(segs) - 1) ELSE segs
      segs2 == IF IsDoubleDot(buf) THEN (IF slash THEN popped ELSE Append(popped, << >>))
               ELSE IF IsSingleDot(buf) THEN (IF slash THEN segs ELSE Append(segs, << >>))
               ELSE Append(segs, buf)
  IN IF atEnd THEN [segs |-> segs2, next |-> i]
     ELSE IF slash THEN PathState(s, i + 1, segs2, << >>)
     ELSE PathState(s, i + 1, segs, buf \o PathEncode(s[i]))

\* the serialized path: "/" before every segment
RECURSIVE JoinPath(_)
JoinPath(segs) ==
  IF Len(segs) = 0 THEN << >> ELSE << "/" >> \o segs[1] \o JoinPath(SubSeq(segs, 2, Len(segs)))

\* the query state from position i (just after "?") up to "#" or the end
RECURSIVE QueryState(_, _, _)
QueryState(s, i, acc) ==
  IF i > Len(s) \/ s[i] = "#" THEN acc
  ELSE QueryState(s, i + 1, acc \o QueryEncode(s[i]))

\* the first position at or after i that holds no slash
RECURSIVE SkipSlashes(_, _)
SkipSlashes(s, i) == IF i <= Len(s) /\ IsSlash(s[i]) THEN SkipSlashes(s, i + 1) ELSE i

\* the first position at or after i that ends the authority, or Len(s) + 1
RECURSIVE AuthorityEnd(_, _)
AuthorityEnd(s, i) ==
  IF i > Len(s) \/ IsSlash(s[i]) \/ s[i] \in { "?", "#" } THEN i ELSE AuthorityEnd(s, i + 1)

\* the last position of c in s, 0 when absent
RECURSIVE LastIndexOf(_, _, _)
LastIndexOf(s, c, from) ==
  IF from < 1 THEN 0 ELSE IF s[from] = c THEN from ELSE LastIndexOf(s, c, from - 1)

ForbiddenHostChars ==
  { "#", "/", ":", "<", ">", "?", "@", "[", "\\", "]", "^", "|", "%" }

\* the host parser on a domain: percent-decode, refuse forbidden code points, lowercase
ParseHost(text) ==
  LET d == decodeURIComponent(text) IN
  IF ~d.ok \/ Len(d.text) = 0
     \/ \E k \in 1..Len(d.text) :
          Code(d.text[k]) <= 32 \/ Code(d.text[k]) >= 127 \/ d.text[k] \in ForbiddenHostChars
  THEN [ok |-> FALSE, host |-> << >>]
  ELSE [ok |-> TRUE, host |-> Lower(d.text)]

IsDigit(c) == Code(c) >= 48 /\ Code(c) <= 57

\* the authority text: credentials before the last "@" are dropped, the port follows ":"
ParseAuthority(text) ==
  LET at == LastIndexOf(text, "@", Len(text))
      hostport == SubSeq(text, at + 1, Len(text))
      colon == IndexOf(hostport, ":", 1)
      hostText == IF colon = 0 THEN hostport ELSE SubSeq(hostport, 1, colon - 1)
      portText == IF colon = 0 THEN << >> ELSE SubSeq(hostport, colon + 1, Len(hostport))
      h == ParseHost(hostText)
  IN IF ~h.ok \/ \E k \in 1..Len(portText) : ~IsDigit(portText[k])
     THEN [ok |-> FALSE, host |-> << >>, port |-> << >>]
     ELSE [ok |-> TRUE, host |-> h.host, port |-> portText]

\* path and query of s from position i, where the path begins
PathAndQuery(s, i) ==
  LET start == IF i <= Len(s) /\ IsSlash(s[i]) THEN i + 1 ELSE i
      p == PathState(s, start, << >>, << >>)
      q == IF p.next <= Len(s) /\ s[p.next] = "?" THEN QueryState(s, p.next + 1, << >>)
           ELSE << >>
  IN [pathname |-> JoinPath(p.segs),
      search |-> IF Len(q) = 0 THEN << >> ELSE << "?" >> \o q]

\* new URL(input, base), base = [scheme, host, port]
ParseURL(input, base) ==
  LET s == Preprocess(input) IN
  IF Len(s) >= 2 /\ IsSlash(s[1]) /\ IsSlash(s[2])
  THEN \* scheme-relative: the authority is read from the input
    LET a0 == SkipSlashes(s, 1)
        a1 == AuthorityEnd(s, a0)
        auth == ParseAuthority(SubSeq(s, a0, a1 - 1))
        pq == PathAndQuery(s, a1)
    IN [ok |-> auth.ok, scheme |-> base.scheme, host |-> auth.host, port |-> auth.port,
        pathname |-> pq.pathname, search |-> pq.search]
  ELSE \* path-absolute: the base's origin is kept
    LET pq == PathAndQuery(s, 1)
    IN [ok |-> TRUE, scheme |-> base.scheme, host |-> base.host, port |-> base.port,
        pathname |-> pq.pathname, search |-> pq.search]

(***************************************************************************)
(* The backend table (AgentAuthConfig.backends), already resolved.         *)
(*   a: no allowedPaths, no maxBodyBytes, one credential header "X-K"      *)
(*   b: allowedPaths ["/v1/m", "/v1/f/*"], maxBodyBytes MaxBodyB,          *)
(*      credential header "authorization"                                  *)
(***************************************************************************)

\* default max request body size: 10 MB
DEFAULT_MAX_BODY_BYTES == 10485760

\* maxBodyBytes of backend b
MaxBodyB == 3

NameA == << "a" >>
NameB == << "b" >>
NameU == << "u" >>

\* a name that is no key of config.backends but a property every object inherits
NameC == << "c", "o", "n", "s", "t", "r", "u", "c", "t", "o", "r" >>

BackendNames == { NameA, NameB }

\* property names that config.backends, a plain object, inherits from Object.prototype
InheritedNames == { NameC }

Backends ==
  (NameA :> [target |-> [scheme |-> "https", host |-> << "a", "p", "i" >>, port |-> << >>],
             headers |-> << [name |-> << "X", "-", "K" >>, value |-> << "SECRET_A" >>] >>,
             allowedPaths |-> << >>,
             hasMaxBody |-> FALSE, maxBodyBytes |-> 0]) @@
  (NameB :> [target |-> [scheme |-> "http", host |-> << "h", "u", "b" >>, port |-> << "8", "0", "8", "0" >>],
             headers |-> << [name |-> << "a", "u", "t", "h", "o", "r", "i", "z", "a", "t", "i", "o", "n" >>, value |-> << "SECRET_B" >>] >>,
             allowedPaths |-> << << "/", "v", "1", "/", "m" >>, << "/", "v", "1", "/", "f", "/", "*" >> >>,
             hasMaxBody |-> TRUE, maxBodyBytes |-> MaxBodyB])

\* this.config.backends[backendName] is truthy
HasBackend(name) == name \in BackendNames \cup InheritedNames

\* backend.allowedPaths; undefined (the empty sequence) on an inherited property
AllowedPathsOf(name) == IF name \in BackendNames THEN Backends[name].allowedPaths ELSE << >>

\* backend.maxBodyBytes ?? DEFAULT_MAX_BODY_BYTES
MaxBodyOf(b) == IF b.hasMaxBody THEN b.maxBodyBytes ELSE DEFAULT_MAX_BODY_BYTES

HealthUrl == << "/", "a", "g", "e", "n", "t", "a", "u", "t", "h", "/", "h", "e", "a", "l", "t", "h" >>

(***************************************************************************)
(* Header objects: a JavaScript object is a sequence of [name, value] with *)
(* distinct names, in insertion order; a value is a sequence of pieces.    *)
(***************************************************************************)
HasKey(obj, k) == \E i \in 1..Len(obj) : obj[i].name = k

GetKey(obj, k) == obj[CHOOSE i \in 1..Len(obj) : obj[i].name = k].value

\* obj[k] = v
SetKey(obj, k, v) ==
  IF HasKey(obj, k)
  THEN [i \in 1..Len(obj) |-> IF obj[i].name = k THEN [name |-> k, value |-> v] ELSE obj[i]]
  ELSE Append(obj, [name |-> k, value |-> v])

\* header names of which the HTTP parser keeps the first copy only
DiscardDuplicates == { << "h", "o", "s", "t" >>, << "a", "u", "t", "h", "o", "r", "i", "z", "a", "t", "i", "o", "n" >> }

\* req.headers: names lowercased, copies of one name joined with ", "
RECURSIVE IncomingHeaders(_, _)
IncomingHeaders(wire, acc) ==
  IF Len(wire) = 0 THEN acc
  ELSE
    LET k == Lower(wire[1].name)
        v == wire[1].value
        acc2 == IF ~HasKey(acc, k) THEN SetKey(acc, k, v)
                ELSE IF k \in DiscardDuplicates THEN acc
                ELSE SetKey(acc, k, GetKey(acc, k) \o << ", " >> \o v)
    IN IncomingHeaders(SubSeq(wire, 2, Len(wire)), acc2)

\* a copy that leaves out the host header only
IsForwardedHeaderButHost(key) == key # << "h", "o", "s", "t" >>

\* key !== 'host' && key !== 'connection'
IsForwardedHeader(key) == key # << "h", "o", "s", "t" >> /\ key # << "c", "o", "n", "n", "e", "c", "t", "i", "o", "n" >>

\* the first loop of forward: copy the client's headers
RECURSIVE CopyHeaders(_, _)
CopyHeaders(entries, headers) ==
  IF Len(entries) = 0 THEN headers
  ELSE CopyHeaders(SubSeq(entries, 2, Len(entries)),
                   IF IsForwardedHeader(entries[1].name)
                   THEN SetKey(headers, entries[1].name, entries[1].value)
                   ELSE headers)

\* a merge that keeps a header the client already set
RECURSIVE InjectHeadersKeepClient(_, _)
InjectHeadersKeepClient(entries, headers) ==
  IF Len(entries) = 0 THEN headers
  ELSE InjectHeadersKeepClient(SubSeq(entries, 2, Len(entries)),
                               IF HasKey(headers, entries[1].name) THEN headers
                               ELSE SetKey(headers, entries[1].name, entries[1].value))

\* the second loop of forward: headers[key] = value for every backend header
RECURSIVE InjectHeaders(_, _)
InjectHeaders(entries, headers) ==
  IF Len(entries) = 0 THEN headers
  ELSE InjectHeaders(SubSeq(entries, 2, Len(entries)),
                     SetKey(headers, entries[1].name, entries[1].value))

\* the headers object handed to request()
BuildHeaders(reqHeaders, backendHeaders) ==
  InjectHeaders(backendHeaders, CopyHeaders(reqHeaders, << >>))

\* request(url, {headers}): setHeader for every key in insertion order, the
\* outgoing header table being keyed by the lowercased name (the last wins)
RECURSIVE OutgoingHeaders(_, _)
OutgoingHeaders(headers, out) ==
  IF Len(headers) = 0 THEN out
  ELSE OutgoingHeaders(SubSeq(headers, 2, Len(headers)),
                       SetKey(out, Lower(headers[1].name), headers[1].value))

\* response headers safe to forward to the agent
ALLOWED_RESPONSE_HEADERS ==
  { << "c", "o", "n", "t", "e", "n", "t", "-", "t", "y", "p", "e" >>,
    << "c", "o", "n", "t", "e", "n", "t", "-", "l", "e", "n", "g", "t", "h" >>,
    << "c", "o", "n", "t", "e", "n", "t", "-", "e", "n", "c", "o", "d", "i", "n", "g" >>,
    << "t", "r", "a", "n", "s", "f", "e", "r", "-", "e", "n", "c", "o", "d", "i", "n", "g" >>,
    << "c", "a", "c", "h", "e", "-", "c", "o", "n", "t", "r", "o", "l" >>,
    << "d", "a", "t", "e" >>,
    << "e", "t", "a", "g" >>,
    << "v", "a", "r", "y" >> }

\* a filter that removes the headers known to be sensitive and keeps the rest
RECURSIVE safeHeadersDenylist(_, _)
safeHeadersDenylist(entries, safe) ==
  IF Len(entries) = 0 THEN safe
  ELSE safeHeadersDenylist(SubSeq(entries, 2, Len(entries)),
                           IF Lower(entries[1].name) \notin { << "s", "e", "t", "-", "c", "o", "o", "k", "i", "e" >>, << "s", "e", "r", "v", "e", "r" >> }
                           THEN SetKey(safe, entries[1].name, entries[1].value)
                           ELSE safe)

\* the loop that fills safeHeaders from Object.entries(proxyRes.headers)
RECURSIVE safeHeaders(_, _)
safeHeaders(entries, safe) ==
  IF Len(entries) = 0 THEN safe
  ELSE safeHeaders(SubSeq(entries, 2, Len(entries)),
                   IF Lower(entries[1].name) \in ALLOWED_RESPONSE_HEADERS
                   THEN SetKey(safe, entries[1].name, entries[1].value)
                   ELSE safe)

\* { 'content-type': 'application/json' }
JsonHeaders == << [name |-> << "c", "o", "n", "t", "e", "n", "t", "-", "t", "y", "p", "e" >>, value |-> << "application/json" >>] >>

(***************************************************************************)
(* handleRequest up to its decision: the health reply, a denial, or the    *)
(* call of forward.                                                        *)
(***************************************************************************)
NoRoute == [kind |-> "none", code |-> "", reasonText |-> "", reasonArg |-> << >>,
            auditBackend |-> << >>, backendName |-> << >>,
            targetPath |-> << >>, fullTargetPath |-> << >>]

Denial(code, text, arg, auditBackend) ==
  [NoRoute EXCEPT !.kind = "deny", !.code = code, !.reasonText = text,
                  !.reasonArg = arg, !.auditBackend = auditBackend]

\* backend || 'none'
NoneBackend == << "n", "o", "n", "e" >>

\* a check that rejects '..' only as a whole path segment
HasDotDotSegment(targetPath) ==
  \E i \in 1..(Len(targetPath) - 1) :
    /\ targetPath[i] = "." /\ targetPath[i + 1] = "."
    /\ (i = 1 \/ targetPath[i - 1] = "/")
    /\ (i + 1 = Len(targetPath) \/ targetPath[i + 2] = "/")

\* targetPath.includes('..')
HasTraversal(targetPath) == Includes(targetPath, << ".", "." >>)

\* a handleRequest that looks the backend up before it decodes the path
ResolveLookupFirst(u) ==
  IF u = HealthUrl THEN [NoRoute EXCEPT !.kind = "health"]
  ELSE
    LET slashIdx == IndexOf(u, "/", 2) IN
    IF slashIdx = 0 THEN Denial("invalid_path", "No backend in path: ", u, NoneBackend)
    ELSE
      LET backendName == SubSeq(u, 2, slashIdx - 1)
          rawPath == SubstringFrom(u, slashIdx)
          decoded == decodeURIComponent(BeforeQuery(rawPath))
          targetPath == decoded.text
          qIdx == IndexOf(rawPath, "?", 1)
          fullTargetPath == IF qIdx # 0 THEN targetPath \o SubstringFrom(rawPath, qIdx)
                            ELSE targetPath
      IN
      IF ~HasBackend(backendName)
      THEN Denial("unknown_backend", "Unknown backend: ", backendName, NoneBackend)
      ELSE IF ~decoded.ok
      THEN Denial("invalid_path", "Malformed URL encoding: ", rawPath, NoneBackend)
      ELSE IF HasTraversal(targetPath)
      THEN Denial("path_traversal", "Path traversal rejected: ", targetPath, NoneBackend)
      ELSE IF ~isPathAllowed(targetPath, AllowedPathsOf(backendName))
      THEN Denial("path_denied", "Path not allowed: ", targetPath, backendName)
      ELSE [NoRoute EXCEPT !.kind = "forward", !.backendName = backendName,
                           !.targetPath = targetPath, !.fullTargetPath = fullTargetPath]

Resolve(u) ==
  IF u = HealthUrl THEN [NoRoute EXCEPT !.kind = "health"]
  ELSE
    LET slashIdx == IndexOf(u, "/", 2) IN
    IF slashIdx = 0 THEN Denial("invalid_path", "No backend in path: ", u, NoneBackend)
    ELSE
      LET backendName == SubSeq(u, 2, slashIdx - 1)
          rawPath == SubstringFrom(u, slashIdx)
          decoded == decodeURIComponent(BeforeQuery(rawPath))
          targetPath == decoded.text
          qIdx == IndexOf(rawPath, "?", 1)
          fullTargetPath == IF qIdx # 0 THEN targetPath \o SubstringFrom(rawPath, qIdx)
                            ELSE targetPath
      IN
      IF ~decoded.ok
      THEN Denial("invalid_path", "Malformed URL encoding: ", rawPath, NoneBackend)
      ELSE IF HasTraversal(targetPath)
      THEN Denial("path_traversal", "Path traversal rejected: ", targetPath, NoneBackend)
      ELSE IF ~HasBackend(backendName)
      THEN Denial("unknown_backend", "Unknown backend: ", backendName, NoneBackend)
      ELSE IF ~isPathAllowed(targetPath, AllowedPathsOf(backendName))
      THEN Denial("path_denied", "Path not allowed: ", targetPath, backendName)
      ELSE [NoRoute EXCEPT !.kind = "forward", !.backendName = backendName,
                           !.targetPath = targetPath, !.fullTargetPath = fullTargetPath]

(***************************************************************************)
(* Inputs.  A request-target is "/" + name + the concatenation of at most  *)
(* MaxFrags fragments; a request carries at most MaxHdrs header lines and  *)
(* delivers at most MaxChunks body chunks.                                 *)
(***************************************************************************)
MaxFrags == 2
MaxHdrs == 2
MaxChunks == 2

Frags ==
  { << "/", "v", "1", "/", "m" >>,          \* /v1/m
    << "/", "v", "1", "/", "f", "/" >>,          \* /v1/f/
    << "/" >>,          \* /
    << ".", "." >>,          \* ..
    << "%", "2", "e", "%", "2", "E" >>,          \* %2e%2E
    << "%", "2", "5", "2", "e", "%", "2", "5", "2", "e" >>,          \* %252e%252e
    << "/", "e", "v", "i", "l" >>,          \* /evil
    << "\\", "e", "v", "i", "l" >>,          \* \evil
    << "?", "q", "=", "1" >>,          \* ?q=1
    << "%" >>,         \* %
    << "%", "2", "F" >>,        \* %2F
    << "/", "%", "2", "3" >> }        \* /%23

RECURSIVE RestsUpTo(_)
RestsUpTo(n) ==
  IF n = 0 THEN { << >> }
  ELSE LET r == RestsUpTo(n - 1) IN r \cup { x \o f : x \in r, f \in Frags }

Urls ==
  { HealthUrl } \cup
  { << "/" >> \o name \o rest : name \in { NameA, NameB, NameU, NameC }, rest \in RestsUpTo(MaxFrags) }

\* request-targets of the requests that carry a body or a chosen header set
CoreUrls == { NameSlash \o << "/", "v", "1", "/", "m" >> : NameSlash \in { << "/" >> \o NameA, << "/" >> \o NameB } }

HostLine == [name |-> << "H", "o", "s", "t" >>, value |-> << "proxy.local" >>]

HeaderLines ==
  { [name |-> << "x", "-", "k" >>, value |-> << "evil" >>],
    [name |-> << "X", "-", "K" >>, value |-> << "EVIL" >>],
    [name |-> << "A", "u", "t", "h", "o", "r", "i", "z", "a", "t", "i", "o", "n" >>, value |-> << "evil" >>],
    [name |-> << "C", "o", "n", "n", "e", "c", "t", "i", "o", "n" >>, value |-> << "close" >>],
    [name |-> << "a", "c", "c", "e", "p", "t" >>, value |-> << "json" >>] }

RECURSIVE HeaderSetsUpTo(_)
HeaderSetsUpTo(n) ==
  IF n = 0 THEN { << HostLine >> }
  ELSE LET r == HeaderSetsUpTo(n - 1) IN r \cup { Append(x, h) : x \in r, h \in HeaderLines }

ChunkSizes == { 1, MaxBodyB - 1, MaxBodyB, DEFAULT_MAX_BODY_BYTES }

UpstreamStatuses == { 200, 404 }

\* the header lines of an upstream response
MaxUpHdrs == 2

UpHeaderLines ==
  { [name |-> << "C", "o", "n", "t", "e", "n", "t", "-", "T", "y", "p", "e" >>, value |-> << "text/plain" >>],
    [name |-> << "V", "a", "r", "y" >>, value |-> << "accept" >>],
    [name |-> << "S", "e", "t", "-", "C", "o", "o", "k", "i", "e" >>, value |-> << "sid=1" >>],
    [name |-> << "X", "-", "T", "r", "a", "c", "e", "-", "I", "d" >>, value |-> << "t-77" >>] }

\* the sequences of at most n distinct header lines
RECURSIVE UpHeaderSetsUpTo(_)
UpHeaderSetsUpTo(n) ==
  IF n = 0 THEN { << >> }
  ELSE LET r == UpHeaderSetsUpTo(n - 1)
       IN r \cup UNION { { Append(x, h) : h \in { l \in UpHeaderLines : \A k \in 1..Len(x) : x[k] # l } } :
                          x \in r }

ErrTexts == { "connect ECONNREFUSED hub:8080", "read ECONNRESET" }

(***************************************************************************)
(* State of one request.                                                   *)
(***************************************************************************)
VARIABLES
  url,          \* req.url
  method,       \* req.method
  wireHeaders,  \* the header lines the client sent
  sinkFails,    \* AuditLog.write throws (fs.writeSync fails)
  argPath,      \* isPathAllowed called on its own: path
  argPatterns,  \* isPathAllowed called on its own: allowedPaths
  isAllowed,    \* isPathAllowed called on its own: [done, value]
  boot,         \* starting the proxy: the bind address from file, flag, listen
  cfg,          \* loadConfig called on its own: [raw, done, result]
  cur,          \* which of two in-flight requests the request variables hold
  parked,       \* the request variables of the other in-flight request
  logFile,      \* AuditLog on its own: fd, the file's text, writes, read()
  doctor,       \* envDoctor called on its own: [env, done, findings, stderr]
  cli,          \* the start and stop commands around one PID file: [file, procs, cmds, ...]
  pc,           \* "received", "health", "denied", "forwarding", "crashed"
  route,        \* what handleRequest resolved
  res,          \* the ServerResponse: headersSent, writes, status, body, ended
  client,       \* what reached the client: status (0: nothing), ended
  sockDestroyed,\* the inbound socket was destroyed
  reqState,     \* the inbound body stream: "flowing", "ended", "destroyed"
  received,     \* let received
  inChunks,     \* the chunks the 'data' handler was called with
  up,           \* the upstream request as opened: url, method, headers
  proxyReq,     \* "none", "open", "destroyed" (destroy()), "failed" (socket error)
  errorEmitted, \* proxyReq has emitted 'error'
  proxyRes,     \* "none", "streaming", "ended", "aborted"
  proxyResHeaders, \* proxyRes.headers
  upWritten,    \* the chunks given to proxyReq.write
  upEnded,      \* proxyReq.end() was called
  auditLog      \* the entries given to AuditLog.write

vars == << url, method, wireHeaders, sinkFails, argPath, argPatterns, isAllowed,
           boot, cfg, cur, parked, logFile, doctor, cli, pc, route, res, client, sockDestroyed, reqState,
           received, inChunks, up, proxyReq, errorEmitted, proxyRes, proxyResHeaders,
           upWritten, upEnded, auditLog >>

sideVars == << boot, cfg, cur, parked, logFile, doctor, cli >>
inputVars == << url, method, wireHeaders, sinkFails, argPath, argPatterns, isAllowed, sideVars >>
inboundVars == << reqState, received, inChunks >>
upstreamVars == << up, proxyReq, errorEmitted, proxyRes, proxyResHeaders, upWritten, upEnded >>

NoBody == [error |-> "", text |-> "", arg |-> << >>]
NoRes == [headersSent |-> FALSE, writes |-> 0, status |-> 0, headers |-> << >>,
          body |-> NoBody, ended |-> FALSE]
NoUp == [opened |-> FALSE, opens |-> 0, target |-> [ok |-> FALSE], method |-> "",
         headers |-> << >>]

InitRest ==
  /\ pc = "received"
  /\ route = NoRoute
  /\ res = NoRes
  /\ client = [status |-> 0, ended |-> FALSE]
  /\ sockDestroyed = FALSE
  /\ reqState = "flowing"
  /\ received = 0
  /\ inChunks = << >>
  /\ up = NoUp
  /\ proxyReq = "none"
  /\ errorEmitted = FALSE
  /\ proxyRes = "none"
  /\ proxyResHeaders = << >>
  /\ upWritten = << >>
  /\ upEnded = FALSE
  /\ auditLog = << >>

\* the request as received
InitRequest ==
  \/ url \in Urls /\ method = "GET" /\ wireHeaders = << HostLine >>
  \/ url \in CoreUrls \cup { HealthUrl } /\ method = "POST" /\ wireHeaders = << HostLine >>
  \/ url \in CoreUrls /\ method = "GET" /\ wireHeaders \in HeaderSetsUpTo(MaxHdrs)

NotChecked == [done |-> FALSE, value |-> FALSE]

\* isPathAllowed is not called on its own
NoAllowCall == argPath = << >> /\ argPatterns = << >> /\ isAllowed = NotChecked

\* a variable of an operation that is not called in this specification
Unused == [stage |-> "unused"]

\* the request variables hold the only request in flight
OneRequest == cur = 1 /\ parked = Unused

\* nothing but the proxy's request handling runs
NoSideCalls == boot = Unused /\ cfg = Unused /\ logFile = Unused /\ doctor = Unused /\ cli = Unused

\* a request arrives at a proxy whose audit sink works
Init ==
  /\ InitRequest
  /\ InitRest
  /\ NoAllowCall
  /\ OneRequest
  /\ NoSideCalls
  /\ sinkFails = FALSE

(***************************************************************************)
(* ServerResponse and AuditLog primitives.                                 *)
(***************************************************************************)

\* res.writeHead(status, headers)
writeHead(r, status, headers) ==
  [r EXCEPT !.headersSent = TRUE, !.writes = @ + 1, !.status = status, !.headers = headers]

\* res.end(body)
end(r, body) == [r EXCEPT !.body = body, !.ended = TRUE]

\* what the client has after res was written while the socket was in state destroyed
Delivered(c, r, destroyed) ==
  IF destroyed THEN c ELSE [status |-> r.status, ended |-> r.ended]

\* an AuditEntry that carries a status only when the request was allowed
EntryStatusWhenAllowed(backend, path, status, hasDuration, allowed, reasonText, reasonArg) ==
  [backend |-> backend, method |-> method, path |-> path,
   hasStatus |-> allowed /\ status # 0, status |-> IF allowed THEN status ELSE 0,
   hasDuration |-> hasDuration, allowed |-> allowed,
   reasonText |-> reasonText, reasonArg |-> reasonArg]

\* an AuditEntry; ts is left out, an undefined status is 0
Entry(backend, path, status, hasDuration, allowed, reasonText, reasonArg) ==
  [backend |-> backend, method |-> method, path |-> path,
   hasStatus |-> status # 0, status |-> status,
   hasDuration |-> hasDuration, allowed |-> allowed,
   reasonText |-> reasonText, reasonArg |-> reasonArg]

\* this.audit(entry), with an audit log configured
audit(log, entry) == Append(log, entry)

(***************************************************************************)
(* handleRequest: the health reply, deny, or the synchronous part of       *)
(* forward (the URL, the headers, the upstream request).                   *)
(***************************************************************************)

\* a health reply that serializes config.backends instead of its keys
HealthBodyWithConfig ==
  [error |-> "", text |-> "ok",
   arg |-> << Backends[NameA].headers[1].value[1], Backends[NameB].headers[1].value[1] >>]

\* the JSON body of the health reply
HealthBody == [error |-> "", text |-> "ok", arg |-> << >>]

\* a deny that answers with a fixed message
DenyFixedMessage(r) ==
  IF sinkFails
  THEN /\ pc' = "crashed"
       /\ UNCHANGED << auditLog, res, client, upstreamVars >>
  ELSE /\ pc' = "denied"
       /\ auditLog' = audit(auditLog,
                            Entry(r.auditBackend, url, 403, FALSE, FALSE, r.reasonText, r.reasonArg))
       /\ res' = end(writeHead(res, 403, JsonHeaders),
                     [error |-> r.code, text |-> "Forbidden", arg |-> << >>])
       /\ client' = Delivered(client, res', sockDestroyed)
       /\ UNCHANGED upstreamVars

\* deny(res, code, message, method, path, backend)
Deny(r) ==
  IF sinkFails
  THEN \* this.audit throws before res.writeHead
       /\ pc' = "crashed"
       /\ UNCHANGED << auditLog, res, client, upstreamVars >>
  ELSE /\ pc' = "denied"
       /\ auditLog' = audit(auditLog,
                            Entry(r.auditBackend, url, 403, FALSE, FALSE, r.reasonText, r.reasonArg))
       /\ res' = end(writeHead(res, 403, JsonHeaders),
                     [error |-> r.code, text |-> r.reasonText, arg |-> r.reasonArg])
       /\ client' = Delivered(client, res', sockDestroyed)
       /\ UNCHANGED upstreamVars

\* the upstream request opened a second time, as a retry would
requestTwice(u, targetUrl, headers) ==
  [opened |-> TRUE, opens |-> u.opens + 2, target |-> targetUrl, method |-> method,
   headers |-> headers]

\* requestModule.request(targetUrl.href, { method, headers }, callback)
request(u, targetUrl, headers) ==
  [opened |-> TRUE, opens |-> u.opens + 1, target |-> targetUrl, method |-> method,
   headers |-> headers]

\* forward up to the registration of the listeners; new URL() throwing (also
\* on the undefined target of an inherited property) is an uncaught exception
\* of the 'request' listener
Forward(r) ==
  LET backend == Backends[r.backendName]
      targetUrl == ParseURL(r.fullTargetPath, backend.target)
      headers == BuildHeaders(IncomingHeaders(wireHeaders, << >>), backend.headers)
  IN IF r.backendName \notin BackendNames \/ ~targetUrl.ok
     THEN /\ pc' = "crashed"
          /\ UNCHANGED << res, client, auditLog, upstreamVars >>
     ELSE /\ pc' = "forwarding"
          /\ up' = request(up, targetUrl, OutgoingHeaders(headers, << >>))
          /\ proxyReq' = "open"
          /\ UNCHANGED << res, client, auditLog, errorEmitted, proxyRes, proxyResHeaders,
                          upWritten, upEnded >>

HandleRequest ==
  /\ pc = "received"
  /\ LET r == Resolve(url) IN
     /\ route' = r
     /\ IF r.kind = "health"
        THEN /\ pc' = "health"
             /\ res' = end(writeHead(res, 200, JsonHeaders), HealthBody)
             /\ client' = Delivered(client, res', sockDestroyed)
             /\ UNCHANGED << auditLog, upstreamVars >>
        ELSE IF r.kind = "deny" THEN Deny(r)
        ELSE Forward(r)
  /\ UNCHANGED << inputVars, inboundVars, sockDestroyed >>

(***************************************************************************)
(* The listeners forward registers.                                        *)
(***************************************************************************)

\* a limit that lets one byte too many through
OverLimitOffByOne(rcv, maxBody) == rcv > maxBody + 1

\* received >= maxBody
OverLimitInclusive(rcv, maxBody) == rcv >= maxBody

\* received > maxBody
OverLimit(rcv, maxBody) == rcv > maxBody

\* a reply that does not look at res.headersSent
MayRespondAlways(r) == TRUE

\* !res.headersSent
MayRespond(r) == ~r.headersSent

\* proxyReq.destroy()
DestroyedReq(p) == IF p = "open" THEN "destroyed" ELSE p

\* the upstream response stream once its request is destroyed or its socket closes
AbortedRes(p) == IF p = "streaming" THEN "aborted" ELSE p

\* a reply that always reports success
StatusAlways200(status) == 200

\* proxyRes.statusCode || 502
StatusOr502(status) == IF status = 0 THEN 502 ELSE status

\* req.on('data'): a chunk of len bytes
ReqData(len) ==
  /\ pc = "forwarding" /\ reqState = "flowing" /\ method = "POST"
  /\ Len(inChunks) < MaxChunks
  /\ LET maxBody == MaxBodyOf(Backends[route.backendName])
         rcv == received + len
     IN /\ received' = rcv
        /\ inChunks' = Append(inChunks, len)
        /\ IF OverLimit(rcv, maxBody)
           THEN /\ reqState' = "destroyed"
                /\ sockDestroyed' = TRUE
                /\ proxyReq' = DestroyedReq(proxyReq)
                /\ proxyRes' = AbortedRes(proxyRes)
                /\ IF sinkFails
                   THEN \* this.audit throws after the two destroy() calls
                        /\ pc' = "crashed"
                        /\ UNCHANGED << auditLog, res, client >>
                   ELSE /\ pc' = pc
                        /\ auditLog' = audit(auditLog,
                                             Entry(route.backendName, route.fullTargetPath, 413,
                                                   FALSE, FALSE, "body exceeded bytes: ",
                                                   << ToString(maxBody) >>))
                        /\ res' = IF MayRespond(res)
                                  THEN end(writeHead(res, 413, JsonHeaders),
                                           [error |-> "body_too_large",
                                            text |-> "Request body exceeds byte limit: ",
                                            arg |-> << ToString(maxBody) >>])
                                  ELSE res
                        /\ client' = Delivered(client, res', sockDestroyed')
                /\ UNCHANGED << upWritten >>
           ELSE /\ upWritten' = Append(upWritten, len)
                /\ UNCHANGED << pc, reqState, sockDestroyed, proxyReq, proxyRes, auditLog, res,
                                client >>
  /\ UNCHANGED << inputVars, route, up, errorEmitted, proxyResHeaders, upEnded >>

\* req.on('end')
ReqEnd ==
  /\ pc = "forwarding" /\ reqState = "flowing"
  /\ reqState' = "ended"
  /\ upEnded' = TRUE
  /\ UNCHANGED << inputVars, pc, route, res, client, sockDestroyed, received, inChunks, up,
                  proxyReq, errorEmitted, proxyRes, proxyResHeaders, upWritten, auditLog >>

\* req.on('error'): the client went away before the body was complete
ReqError ==
  /\ pc = "forwarding" /\ reqState = "flowing"
  /\ reqState' = "destroyed"
  /\ sockDestroyed' = TRUE
  /\ proxyReq' = DestroyedReq(proxyReq)
  /\ proxyRes' = AbortedRes(proxyRes)
  /\ UNCHANGED << inputVars, pc, route, res, client, received, inChunks, up, errorEmitted,
                  proxyResHeaders, upWritten, upEnded, auditLog >>

\* the upstream's header lines vary for the plain GET requests to CoreUrls
UpHeaderChoices ==
  IF url \in CoreUrls /\ method = "GET" /\ wireHeaders = << HostLine >>
  THEN UpHeaderSetsUpTo(MaxUpHdrs)
  ELSE { << >> }

\* the response callback of request(): audit, writeHead, pipe
UpstreamResponse(status, lines) ==
  /\ pc = "forwarding" /\ proxyReq = "open" /\ proxyRes = "none" /\ ~errorEmitted
  /\ lines \in UpHeaderChoices
  /\ proxyResHeaders' = IncomingHeaders(lines, << >>)
  /\ auditLog' = IF sinkFails THEN auditLog
                 ELSE audit(auditLog,
                            Entry(route.backendName, route.fullTargetPath, status, TRUE, TRUE,
                                  "", << >>))
  /\ IF sinkFails \/ res.headersSent
     THEN \* this.audit throws, or writeHead throws ERR_HTTP_HEADERS_SENT
          /\ pc' = "crashed"
          /\ UNCHANGED << res, client, proxyRes >>
     ELSE /\ res' = writeHead(res, StatusOr502(status), safeHeaders(proxyResHeaders', << >>))
          /\ client' = Delivered(client, res', sockDestroyed)
          /\ proxyRes' = "streaming"
          /\ pc' = pc
  /\ UNCHANGED << inputVars, route, sockDestroyed, inboundVars, up, proxyReq, errorEmitted,
                  upWritten, upEnded >>

\* the values of a header object, one after the other
RECURSIVE HeaderValues(_)
HeaderValues(headers) ==
  IF Len(headers) = 0 THEN << >>
  ELSE headers[1].value \o HeaderValues(SubSeq(headers, 2, Len(headers)))

\* the body an upstream answers with: a fixed text, or (an echo service) the
\* request headers it received
UpstreamBody(echo) ==
  IF echo THEN [error |-> "", text |-> "echo", arg |-> HeaderValues(up.headers)]
  ELSE [error |-> "", text |-> "upstream body", arg |-> << >>]

\* proxyRes.pipe(res): the upstream body ends, pipe ends res
UpstreamBodyEnd(echo) ==
  /\ pc = "forwarding" /\ proxyRes = "streaming"
  /\ proxyRes' = "ended"
  /\ res' = [res EXCEPT !.ended = TRUE, !.body = UpstreamBody(echo)]
  /\ client' = Delivered(client, res', sockDestroyed)
  /\ UNCHANGED << inputVars, pc, route, sockDestroyed, inboundVars, up, proxyReq,
                  errorEmitted, proxyResHeaders, upWritten, upEnded, auditLog >>

\* an 'error' listener that echoes err.message to the client
OnProxyErrorLeaky(errText) ==
  IF sinkFails
  THEN \* this.audit throws
       /\ pc' = "crashed"
       /\ UNCHANGED << auditLog, res, client >>
  ELSE /\ pc' = pc
       /\ auditLog' = audit(auditLog,
                            Entry(route.backendName, route.fullTargetPath, 502, TRUE, TRUE,
                                  "upstream error: ", << errText >>))
       /\ res' = IF MayRespond(res)
                 THEN end(writeHead(res, 502, JsonHeaders),
                          [error |-> "upstream_error", text |-> "upstream unavailable: ",
                           arg |-> << errText >>])
                 ELSE res
       /\ client' = Delivered(client, res', sockDestroyed)

\* proxyReq.on('error')
OnProxyError(errText) ==
  IF sinkFails
  THEN \* this.audit throws
       /\ pc' = "crashed"
       /\ UNCHANGED << auditLog, res, client >>
  ELSE /\ pc' = pc
       /\ auditLog' = audit(auditLog,
                            Entry(route.backendName, route.fullTargetPath, 502, TRUE, TRUE,
                                  "upstream error: ", << errText >>))
       /\ res' = IF MayRespond(res)
                 THEN end(writeHead(res, 502, JsonHeaders),
                          [error |-> "upstream_error", text |-> "upstream unavailable",
                           arg |-> << >>])
                 ELSE res
       /\ client' = Delivered(client, res', sockDestroyed)

\* the upstream connection fails (refused, reset, timed out): 'error' on proxyReq
UpstreamError(errText) ==
  /\ pc = "forwarding" /\ proxyReq = "open" /\ ~errorEmitted
  /\ proxyRes \in { "none", "streaming" }
  /\ proxyReq' = "failed"
  /\ errorEmitted' = TRUE
  /\ proxyRes' = AbortedRes(proxyRes)
  /\ OnProxyError(errText)
  /\ UNCHANGED << inputVars, route, sockDestroyed, inboundVars, up, proxyResHeaders,
                  upWritten, upEnded >>

\* proxyReq was destroyed before any response: it emits 'error' (socket hang up)
ProxyReqHangUp ==
  /\ pc = "forwarding" /\ proxyReq = "destroyed" /\ proxyRes = "none" /\ ~errorEmitted
  /\ errorEmitted' = TRUE
  /\ OnProxyError("socket hang up")
  /\ UNCHANGED << inputVars, route, sockDestroyed, inboundVars, up, proxyReq, proxyRes,
                  proxyResHeaders, upWritten, upEnded >>

\* the upstream closes its connection in the middle of the response body
UpstreamClose ==
  /\ pc = "forwarding" /\ proxyReq = "open" /\ proxyRes = "streaming"
  /\ proxyReq' = "closed"
  /\ proxyRes' = "aborted"
  /\ UNCHANGED << inputVars, pc, route, res, client, sockDestroyed, inboundVars, up,
                  errorEmitted, proxyResHeaders, upWritten, upEnded, auditLog >>

\* the events that follow handleRequest
Events ==
  \/ \E len \in ChunkSizes : ReqData(len)
  \/ ReqEnd
  \/ ReqError
  \/ \E status \in UpstreamStatuses, lines \in UpHeaderSetsUpTo(MaxUpHdrs) :
       UpstreamResponse(status, lines)
  \/ \E echo \in BOOLEAN : UpstreamBodyEnd(echo)
  \/ \E errText \in ErrTexts : UpstreamError(errText)
  \/ ProxyReqHangUp
  \/ UpstreamClose

Next == HandleRequest \/ Events

Spec == Init /\ [][Next]_vars

\* After handleRequest has run: the proxy's own pending 'error' event is
\* delivered, and a client either completes its request or loses its
\* connection; an upstream need not ever answer.
FairSpec ==
  /\ Spec
  /\ WF_vars(ProxyReqHangUp)
  /\ WF_vars(ReqEnd \/ ReqError)

\* After handleRequest has run, every event that can still happen
\* eventually happens.
FairAllSpec == Spec /\ WF_vars(Events)

\* a request arrives at a proxy whose audit sink may throw on write
SinkInit ==
  /\ InitRequest
  /\ InitRest
  /\ NoAllowCall
  /\ OneRequest
  /\ NoSideCalls
  /\ sinkFails \in BOOLEAN

SinkSpec == SinkInit /\ [][Next]_vars

(***************************************************************************)
(* isPathAllowed on its own: a path against a list of at most MaxPatterns  *)
(* patterns.                                                               *)
(***************************************************************************)
MaxPatterns == 2

Paths ==
  { << >>,
    << "/", "v", "1", "/", "m", "e", "s", "s", "a", "g", "e", "s" >>,
    << "/", "v", "1", "/", "m", "e", "s", "s", "a", "g", "e", "s", "/", "e", "x", "t", "r", "a" >>,
    << "/", "v", "1", "/", "m", "e", "s", "s", "a", "g", "e", "s", "*" >>,
    << "/", "r", "e", "p", "o", "s", "/", "f", "o", "o", "/", "b", "a", "r" >>,
    << "/", "r", "e", "p", "o", "s", "/", "f", "o", "o", "d", "/", "b", "a", "r" >>,
    << "/", "r", "e", "p", "o", "s", "/", "f", "o", "o", "/" >>,
    << "/", "r", "e", "p", "o", "s", "/", "f", "o", "o" >> }

Patterns ==
  { << "/", "v", "1", "/", "m", "e", "s", "s", "a", "g", "e", "s" >>,
    << "/", "r", "e", "p", "o", "s", "/", "f", "o", "o", "/", "*" >>,
    << "*" >>,
    << "/", "v", "1", "/", "m", "*", "s" >>,
    << "/", "r", "e", "p", "o", "s", "/", "f", "o", "o" >> }

RECURSIVE PatternListsUpTo(_)
PatternListsUpTo(n) ==
  IF n = 0 THEN { << >> }
  ELSE LET r == PatternListsUpTo(n - 1) IN r \cup { Append(x, q) : x \in r, q \in Patterns }

AllowInit ==
  /\ url = << "/" >> /\ method = "GET" /\ wireHeaders = << >>
  /\ InitRest
  /\ sinkFails = FALSE
  /\ argPath \in Paths
  /\ argPatterns \in PatternListsUpTo(MaxPatterns)
  /\ isAllowed = NotChecked
  /\ OneRequest
  /\ NoSideCalls

\* isPathAllowed(path, allowedPaths)
CheckPath ==
  /\ ~isAllowed.done
  /\ isAllowed' = [done |-> TRUE, value |-> isPathAllowed(argPath, argPatterns)]
  /\ UNCHANGED << url, method, wireHeaders, sinkFails, argPath, argPatterns, sideVars, pc,
                  route, res, client, sockDestroyed, inboundVars, upstreamVars, auditLog >>

AllowSpec == AllowInit /\ [][CheckPath]_vars

(***************************************************************************)
(* Properties.                                                             *)
(***************************************************************************)
Backend == Backends[route.backendName]

Forwarded == pc \in { "forwarding", "crashed" } /\ up.opened

\* the audit log holds an entry with this status and allowed flag
Audited(status, allowed) ==
  \E i \in 1..Len(auditLog) : auditLog[i].status = status /\ auditLog[i].allowed = allowed

\* C1: for every forwarded request and every header name configured for its
\* backend, the upstream receives exactly the configured value under that
\* name (compared in lowercase), whatever the client sent under it.
C1_InjectedHeadersOverride ==
  up.opened =>
    \A i \in 1..Len(Backend.headers) :
      /\ HasKey(up.headers, Lower(Backend.headers[i].name))
      /\ GetKey(up.headers, Lower(Backend.headers[i].name)) = Backend.headers[i].value

\* C1 witness: a forwarded request that carried two copies of a credential
\* header, in two letter cases, with values other than the configured one
C1_Witness ==
  /\ up.opened
  /\ \E i, j \in 1..Len(wireHeaders) :
       /\ i # j
       /\ wireHeaders[i].name # wireHeaders[j].name
       /\ Lower(wireHeaders[i].name) = Lower(Backend.headers[1].name)
       /\ Lower(wireHeaders[j].name) = Lower(Backend.headers[1].name)
       /\ wireHeaders[i].value # Backend.headers[1].value
       /\ wireHeaders[j].value # Backend.headers[1].value

\* C2: every upstream request is sent to the target origin of the backend
\* the request addressed (same scheme, host and port), so that the injected
\* headers never reach another origin.
C2_UpstreamIsBackendTarget ==
  up.opened =>
    /\ up.target.scheme = Backend.target.scheme
    /\ up.target.host = Backend.target.host
    /\ up.target.port = Backend.target.port

\* the text holds "..", or decodes (up to depth times) to a text that does
RECURSIVE DecodesToDotDot(_, _)
DecodesToDotDot(p, depth) ==
  \/ Includes(p, << ".", "." >>)
  \/ /\ depth > 0
     /\ decodeURIComponent(p).ok
     /\ decodeURIComponent(p).text # p
     /\ DecodesToDotDot(decodeURIComponent(p).text, depth - 1)

\* the path of the request-target after the backend name, without the query
InboundPath(u) ==
  LET slashIdx == IndexOf(u, "/", 2) IN
  IF slashIdx = 0 THEN << >> ELSE BeforeQuery(SubstringFrom(u, slashIdx))

\* C3: a request whose inbound path holds an encoding of ".." (literal,
\* percent-encoded in any letter case, or double-encoded) and no malformed
\* escape is denied and never issues an upstream request.
C3_EncodedTraversalNeverForwarded ==
  (/\ pc # "received"
   /\ decodeURIComponent(InboundPath(url)).ok
   /\ DecodesToDotDot(InboundPath(url), 2))
  => /\ route.kind = "deny"
     /\ ~up.opened

\* C4: agents can only hit allowlisted endpoints: for a backend with a
\* non-empty allowedPaths, the path of the URL requested from the upstream
\* matches one of the backend's patterns.
C4_UpstreamPathAllowlisted ==
  (up.opened /\ Len(Backend.allowedPaths) > 0)
  => isPathAllowed(up.target.pathname, Backend.allowedPaths)

\* C5: at most one audit entry is written for a request.
C5_AtMostOneAuditEntry == Len(auditLog) <= 1

\* C6: once a request other than the health check has been handled, an
\* audit entry for it is eventually written.
C6_EventuallyAudited ==
  (pc \in { "denied", "forwarding", "crashed" }) ~> (Len(auditLog) > 0)

\* C7: the response head is written at most once per request.
C7_HeadWrittenAtMostOnce == res.writes <= 1

\* C7 witness: two handlers that answer have run (each wrote its audit
\* entry) and the head was written once: the later reply was suppressed
C7_Witness ==
  /\ res.writes = 1
  /\ Len(auditLog) = 2
  /\ auditLog[1].status = 413
  /\ auditLog[2].status = 502

\* C8: every handled request eventually has its response ended or its
\* connection terminated.
C8_ResponseEventuallyEnds ==
  (pc # "received") ~> (client.ended \/ sockDestroyed \/ pc = "crashed")

\* C9: once the body of a forwarded request has exceeded the backend's
\* maxBodyBytes, the client has a 413 response and the audit log an entry
\* with status 413 and allowed false.
C9_OverLimitAnswered413 ==
  (Forwarded /\ received > MaxBodyOf(Backend))
  => /\ client.status = 413
     /\ Audited(413, FALSE)

\* C10: while the body of a forwarded request totals at most maxBodyBytes,
\* there is no body_too_large outcome, the chunks written to the upstream are
\* the inbound chunks in the order received, and the upstream write side is
\* closed exactly when the inbound body has ended.
C10_BodyWithinLimitRelayed ==
  (Forwarded /\ received <= MaxBodyOf(Backend))
  => /\ ~Audited(413, FALSE)
     /\ res.status # 413
     /\ upWritten = inChunks
     /\ upEnded = (reqState = "ended")

\* C10 witness: a body of exactly maxBodyBytes, in two chunks of different
\* sizes, has been relayed and ended
C10_Witness ==
  /\ Forwarded
  /\ received = MaxBodyOf(Backend)
  /\ Len(upWritten) = 2
  /\ upWritten[1] # upWritten[2]
  /\ reqState = "ended"
  /\ upEnded

\* the body of the generic 502 reply
UpstreamUnavailableBody ==
  [error |-> "upstream_error", text |-> "upstream unavailable", arg |-> << >>]

\* the upstream connection failed before any response headers arrived
FailedBeforeHeaders == pc = "forwarding" /\ proxyReq = "failed" /\ proxyRes = "none"

\* C11: when the upstream connection fails before response headers arrive,
\* the client has status 502 and the fixed body (the same whatever the error
\* text), and the error text is in the reason of the audit entry only.
C11_UpstreamFailureIsGeneric ==
  FailedBeforeHeaders
  => /\ client.status = 502 /\ client.ended
     /\ res.status = 502
     /\ res.body = UpstreamUnavailableBody
     /\ \E i \in 1..Len(auditLog), t \in ErrTexts :
          /\ auditLog[i].status = 502
          /\ auditLog[i].reasonText = "upstream error: "
          /\ auditLog[i].reasonArg = << t >>
          /\ t \notin { res.body.arg[k] : k \in 1..Len(res.body.arg) }

\* C11 witness: a refused connection, whose error text names the target's
\* host and port, reported in the audit entry
C11_Witness ==
  /\ FailedBeforeHeaders
  /\ client.status = 502
  /\ auditLog[Len(auditLog)].reasonArg = << "connect ECONNREFUSED hub:8080" >>

\* an upstream response has been relayed: its head was written to the client
Relayed == proxyRes # "none"

\* C12: of a relayed upstream response the client receives only headers
\* whose lowercase name is on the allowlist, every one of them an upstream
\* header with its upstream value, and every allowlisted upstream header is
\* among them.
C12_OnlyAllowlistedResponseHeaders ==
  Relayed
  => /\ \A i \in 1..Len(res.headers) :
          /\ Lower(res.headers[i].name) \in ALLOWED_RESPONSE_HEADERS
          /\ HasKey(proxyResHeaders, res.headers[i].name)
          /\ GetKey(proxyResHeaders, res.headers[i].name) = res.headers[i].value
     /\ \A k \in 1..Len(proxyResHeaders) :
          Lower(proxyResHeaders[k].name) \in ALLOWED_RESPONSE_HEADERS
          => /\ HasKey(res.headers, proxyResHeaders[k].name)
             /\ GetKey(res.headers, proxyResHeaders[k].name) = proxyResHeaders[k].value

\* C12 witness: an upstream response with an allowlisted header and a
\* tracing header has been relayed, and the client has the first only
C12_Witness ==
  /\ Relayed
  /\ Len(proxyResHeaders) = 2
  /\ HasKey(proxyResHeaders, << "x", "-", "t", "r", "a", "c", "e", "-", "i", "d" >>)
  /\ Len(res.headers) = 1
  /\ client.status = 200

\* the rule of C13 for one pattern, character by character
RuleMatches(p, q) ==
  IF Len(q) > 0 /\ q[Len(q)] = "*"
  THEN /\ Len(p) >= Len(q) - 1
       /\ \A i \in 1..(Len(q) - 1) : p[i] = q[i]
  ELSE /\ Len(p) = Len(q)
       /\ \A i \in 1..Len(q) : p[i] = q[i]

\* C13: isPathAllowed(path, patterns) is true exactly when patterns is
\* empty, or some pattern ends with "*" and path starts with the pattern
\* minus that "*", or has no trailing "*" and equals path; ["/v1/messages"]
\* allows /v1/messages and denies /v1/messages/extra, ["/repos/foo/*"]
\* allows /repos/foo/bar and denies /repos/food/bar.
C13_IsPathAllowedRule ==
  isAllowed.done
  => /\ isAllowed.value
          = (\/ Len(argPatterns) = 0
             \/ \E k \in 1..Len(argPatterns) : RuleMatches(argPath, argPatterns[k]))
     /\ argPatterns = << << "/", "v", "1", "/", "m", "e", "s", "s", "a", "g", "e", "s" >> >>
        => /\ argPath = << "/", "v", "1", "/", "m", "e", "s", "s", "a", "g", "e", "s" >> => isAllowed.value
           /\ argPath = << "/", "v", "1", "/", "m", "e", "s", "s", "a", "g", "e", "s", "/", "e", "x", "t", "r", "a" >> => ~isAllowed.value
     /\ argPatterns = << << "/", "r", "e", "p", "o", "s", "/", "f", "o", "o", "/", "*" >> >>
        => /\ argPath = << "/", "r", "e", "p", "o", "s", "/", "f", "o", "o", "/", "b", "a", "r" >> => isAllowed.value
           /\ argPath = << "/", "r", "e", "p", "o", "s", "/", "f", "o", "o", "d", "/", "b", "a", "r" >> => ~isAllowed.value

\* C13 witness: /repos/food/bar was checked against ["/repos/foo/*"] and denied
C13_Witness ==
  /\ isAllowed.done
  /\ ~isAllowed.value
  /\ argPatterns = << << "/", "r", "e", "p", "o", "s", "/", "f", "o", "o", "/", "*" >> >>
  /\ argPath = << "/", "r", "e", "p", "o", "s", "/", "f", "o", "o", "d", "/", "b", "a", "r" >>

\* the request-target is /{backend}/{path}?{query}
HasQuery(u) ==
  /\ IndexOf(u, "/", 2) # 0
  /\ IndexOf(u, "?", 1) > IndexOf(u, "/", 2)

\* the original text after the first "?"
QueryOf(u) == SubstringFrom(u, IndexOf(u, "?", 1) + 1)

\* C14: for a request-target /{backend}/{path}?{query}, the decision is the
\* one taken for the same request-target without its query, and the query
\* the upstream is sent is the original text after the first "?".
C14_QueryPreserved ==
  (pc # "received" /\ HasQuery(url))
  => /\ route.kind = Resolve(BeforeQuery(url)).kind
     /\ route.code = Resolve(BeforeQuery(url)).code
     /\ up.opened
        => up.target.search = (IF Len(QueryOf(url)) = 0 THEN << >> ELSE << "?" >> \o QueryOf(url))

\* the backend name of a request-target with a second "/"
BackendNameOf(u) == SubSeq(u, 2, IndexOf(u, "/", 2) - 1)

\* why a request that is denied is denied, by the order of the checks
DenialCause(u) ==
  IF IndexOf(u, "/", 2) = 0 THEN "invalid_path"
  ELSE IF ~decodeURIComponent(InboundPath(u)).ok THEN "invalid_path"
  ELSE IF Includes(decodeURIComponent(InboundPath(u)).text, << ".", "." >>) THEN "path_traversal"
  ELSE IF BackendNameOf(u) \notin BackendNames THEN "unknown_backend"
  ELSE "path_denied"

\* C15: a request that ends in Denied has a 403 reply whose error is the
\* code of its cause and whose message is the reason of the one audit entry
\* written for it, and no upstream request was opened.
C15_DeniedIs403WithCode ==
  pc = "denied"
  => /\ client.status = 403 /\ client.ended
     /\ res.body.error = DenialCause(url)
     /\ Len(auditLog) = 1
     /\ auditLog[1].reasonText = res.body.text
     /\ auditLog[1].reasonArg = res.body.arg
     /\ ~up.opened

\* C15 witness: a request to a configured backend was denied by the
\* allowlist, with the decoded path in the message
C15_Witness ==
  /\ pc = "denied"
  /\ res.body.error = "path_denied"
  /\ res.body.arg # InboundPath(url)
  /\ BackendNameOf(url) = NameB

\* the request reaches the backend lookup: its path decodes and holds no ".."
ReachesLookup(u) ==
  /\ u # HealthUrl
  /\ IndexOf(u, "/", 2) # 0
  /\ decodeURIComponent(InboundPath(u)).ok
  /\ ~Includes(decodeURIComponent(InboundPath(u)).text, << ".", "." >>)

\* C16: a handled request that names a backend absent from the backend
\* table is denied with unknown_backend and has exactly one audit entry,
\* with allowed false.
C16_UnknownBackendDenied ==
  (pc # "received" /\ ReachesLookup(url) /\ BackendNameOf(url) \notin BackendNames)
  => /\ pc = "denied"
     /\ res.body.error = "unknown_backend"
     /\ Len(auditLog) = 1
     /\ ~auditLog[1].allowed

\* C17: the health reply is given to GET /agentauth/health and to no other
\* request; it is a 200 with the health body, without an audit entry and
\* without an upstream request.
C17_HealthOnlyForGetHealth ==
  /\ pc = "health"
     => /\ url = HealthUrl /\ method = "GET"
        /\ client.status = 200 /\ client.ended
        /\ res.body = HealthBody
        /\ Len(auditLog) = 0
        /\ ~up.opened
  /\ (pc # "received" /\ url = HealthUrl /\ method = "GET") => pc = "health"

\* C18 as stated: an audit entry of a request denied without reaching the
\* upstream has neither status nor durationMs, every other entry has both.
C18_StatusAndDurationByOutcome ==
  \A i \in 1..Len(auditLog) :
    IF pc = "denied"
    THEN ~auditLog[i].hasStatus /\ ~auditLog[i].hasDuration
    ELSE auditLog[i].hasStatus /\ auditLog[i].hasDuration

\* C18 as amended: every audit entry has a status (403 for a request denied
\* without reaching the upstream); durationMs is absent from the entry of
\* such a denial and from the body_too_large entry, and present in the
\* entries of relayed responses and upstream errors.
C18_StatusAlwaysDurationWhenAllowed ==
  \A i \in 1..Len(auditLog) :
    /\ auditLog[i].hasStatus
    /\ pc = "denied" => (auditLog[i].status = 403 /\ ~auditLog[i].hasDuration)
    /\ pc # "denied" =>
         (auditLog[i].hasDuration <=> auditLog[i].reasonText # "body exceeded bytes: ")

\* C18 witness: a body_too_large entry without durationMs is followed by an
\* upstream-error entry with it
C18_Witness ==
  /\ Len(auditLog) = 2
  /\ auditLog[1].reasonText = "body exceeded bytes: " /\ ~auditLog[1].hasDuration
  /\ auditLog[2].reasonText = "upstream error: " /\ auditLog[2].hasDuration
  /\ auditLog[1].hasStatus /\ auditLog[2].hasStatus

\* C19: the path of every audit entry is the decoded path of the request
\* without its query string.
C19_AuditPathDecodedNoQuery ==
  \A i \in 1..Len(auditLog) :
    /\ route.kind = "forward" => auditLog[i].path = route.targetPath
    /\ (route.kind = "deny" /\ IndexOf(url, "/", 2) # 0 /\ decodeURIComponent(InboundPath(url)).ok)
       => auditLog[i].path = decodeURIComponent(InboundPath(url)).text

\* C20: with an audit sink whose write throws, a denied request still has
\* its 403, and the process does not die of the sink's exception.
C20_SinkFailureHarmless ==
  sinkFails
  => /\ (pc # "received" /\ route.kind = "deny")
        => (pc = "denied" /\ client.status = 403 /\ client.ended)
     /\ pc = "crashed" => ~up.opened

\* C21: abort propagates in both directions: once the inbound request is
\* destroyed the upstream request is no longer open, and once the upstream
\* connection has failed or was aborted (before or after its response
\* headers) the client response is ended or the inbound connection destroyed.
C21_AbortPropagates ==
  pc = "forwarding"
  => /\ reqState = "destroyed" => proxyReq # "open"
     /\ (proxyReq \in { "failed", "closed" } \/ proxyRes = "aborted")
        => (res.ended \/ sockDestroyed)

\* the configured injected header values
SecretValues ==
  { Backends[n].headers[i].value[1] : n \in BackendNames, i \in 1..1 }

\* the response written to the client holds a configured injected header value
SecretInResponse ==
  \/ \E k \in 1..Len(res.body.arg) : res.body.arg[k] \in SecretValues
  \/ \E i \in 1..Len(res.headers) :
       \E k \in 1..Len(res.headers[i].value) : res.headers[i].value[k] \in SecretValues

MaxCfgBackends == 2
MaxCfgHdrs == 1

\* process.env of the process that calls loadConfig
ProcessEnv == cfg.env

SeqsUpTo(S, n) == UNION { [1..k -> S] : k \in 0..n }

\* a BackendConfig as parsed: target ("": absent), headers (absent or a map)
\* whose values are a literal or a reference $K, $E or $N
CfgBackends ==
  { [target |-> t, hasHeaders |-> FALSE, headers |-> << >>] : t \in { "", "https://api" } }
  \cup { [target |-> t, hasHeaders |-> TRUE, headers |-> h] :
           t \in { "", "https://api" },
           h \in SeqsUpTo({ << "v", "1" >>, << "$", "K" >>, << "$", "E" >>, << "$", "N" >> },
                          MaxCfgHdrs) }

\* an AgentAuthConfig as parsed: backends is missing, not an object, or an
\* object; port 0 and bind "" stand for an absent (or falsy) field
RawConfig(kind, backends, port, bind) ==
  [kind |-> kind, backends |-> backends, port |-> port, bind |-> bind]

\* the files: port and bind are both absent or both given
RawConfigs ==
  LET portBind == { << 0, "" >>, << 8080, "0.0.0.0" >> }
  IN  { RawConfig(k, << >>, pb[1], pb[2]) : k \in { "missing", "string" }, pb \in portBind }
      \cup { RawConfig("object", bs, pb[1], pb[2]) :
               bs \in SeqsUpTo(CfgBackends, MaxCfgBackends), pb \in portBind }

Throws(message) == [ok |-> FALSE, error |-> message, config |-> << >>]

\* a header value with an unset variable replaced by the empty string
ResolveValueOrEmpty(value) ==
  IF value # << >> /\ Head(value) = "$"
  THEN LET envVar == Tail(value)
       IN  [ok |-> TRUE,
            value |-> IF envVar \in DOMAIN ProcessEnv THEN ProcessEnv[envVar] ELSE << >>]
  ELSE [ok |-> TRUE, value |-> value]

\* one header value: a value that starts with $ is looked up in process.env
ResolveValue(value) ==
  IF value # << >> /\ Head(value) = "$"
  THEN LET envVar == Tail(value)
           isSet == envVar \in DOMAIN ProcessEnv
       IN  IF ~isSet \/ ProcessEnv[envVar] = << >>
           THEN [ok |-> FALSE, value |-> envVar]
           ELSE [ok |-> TRUE, value |-> ProcessEnv[envVar]]
  ELSE [ok |-> TRUE, value |-> value]

\* the body of the loop over the backends
ResolveBackend(b) ==
  IF b.target = ""
  THEN [ok |-> FALSE, error |-> "must have a target URL", backend |-> b]
  ELSE LET headers == IF b.hasHeaders THEN b.headers ELSE << >>
           resolved == [i \in 1..Len(headers) |-> ResolveValue(headers[i])]
       IN  IF \E i \in 1..Len(headers) : ~resolved[i].ok
           THEN [ok |-> FALSE, error |-> "references a variable that is not set",
                 backend |-> b]
           ELSE [ok |-> TRUE, error |-> "",
                 backend |-> [target |-> b.target, hasHeaders |-> TRUE,
                              headers |-> [i \in 1..Len(headers) |-> resolved[i].value]]]

loadConfig(raw) ==
  IF raw.kind # "object"
  THEN Throws("Config must have a backends object")
  ELSE IF Len(raw.backends) = 0
  THEN Throws("Config must have at least one backend")
  ELSE LET port == IF raw.port = 0 THEN 9999 ELSE raw.port
           bind == IF raw.bind = "" THEN "127.0.0.1" ELSE raw.bind
           resolved == [i \in 1..Len(raw.backends) |-> ResolveBackend(raw.backends[i])]
           failed == { i \in 1..Len(raw.backends) : ~resolved[i].ok }
       IN  IF failed # {}
           THEN Throws(resolved[CHOOSE i \in failed : \A j \in failed : i <= j].error)
           ELSE [ok |-> TRUE, error |-> "",
                 config |-> [backends |-> [i \in 1..Len(raw.backends) |-> resolved[i].backend],
                             port |-> port, bind |-> bind]]

\* the request variables while an operation is called on its own
RequestIdle ==
  /\ url = << "/" >> /\ method = "GET" /\ wireHeaders = << >>
  /\ InitRest
  /\ sinkFails = FALSE
  /\ NoAllowCall
  /\ OneRequest

\* the variables of the requests in flight and of isPathAllowed on its own
requestVars ==
  << url, method, wireHeaders, sinkFails, argPath, argPatterns, isAllowed, cur, parked,
     pc, route, res, client, sockDestroyed, inboundVars, upstreamVars, auditLog >>

ConfigInit ==
  /\ RequestIdle
  /\ boot = Unused /\ logFile = Unused /\ doctor = Unused /\ cli = Unused
  /\ cfg \in { [stage |-> "loading", raw |-> r, result |-> Throws(""),
                \* K is set, E is set to the empty string, N is not set
                env |-> (<< "K" >> :> << "s", "k", "-", "1" >>) @@ (<< "E" >> :> << >>)] :
                r \in RawConfigs }

\* loadConfig(configPath)
LoadConfig ==
  /\ cfg.stage = "loading"
  /\ cfg' = [cfg EXCEPT !.stage = "done", !.result = loadConfig(cfg.raw)]
  /\ UNCHANGED << requestVars, boot, logFile, doctor, cli >>

ConfigSpec == ConfigInit /\ [][LoadConfig]_vars

(***************************************************************************)
(* Starting the proxy: from the command line (runForeground: loadConfig,   *)
(* then the --bind override) or from a config object given to the          *)
(* constructor; then AuthProxy.start.                                      *)
(***************************************************************************)
LoopbackAddresses == { "127.0.0.1", "localhost", "::1" }

BootInit ==
  /\ RequestIdle
  /\ cfg = Unused /\ logFile = Unused /\ doctor = Unused /\ cli = Unused
  /\ \E fileBind \in LoopbackAddresses \cup { "0.0.0.0", "::", "192.168.64.1", "" } :
       \/ \E override \in LoopbackAddresses \cup { "0.0.0.0", "::", "192.168.64.1", "" } :
            boot = [stage |-> "args", direct |-> FALSE, fileBind |-> fileBind,
                    override |-> override, bind |-> "", listening |-> ""]
       \/ boot = [stage |-> "args", direct |-> TRUE, fileBind |-> fileBind,
                  override |-> "", bind |-> "", listening |-> ""]

\* runForeground up to new AuthProxy({ config, auditLog }), on a file that
\* loads
RunForeground ==
  /\ boot.stage = "args" /\ ~boot.direct
  /\ LET file == RawConfig("object",
                            << [target |-> "https://api", hasHeaders |-> FALSE,
                                headers |-> << >>] >>,
                            0, boot.fileBind)
         config == loadConfig(file).config
     IN  boot' = [boot EXCEPT !.stage = "constructed",
                              !.bind = IF boot.override # "" THEN boot.override
                                       ELSE config.bind]
  /\ UNCHANGED << requestVars, cfg, logFile, doctor, cli >>

\* new AuthProxy({ config }) with a config object that was not loaded
Construct ==
  /\ boot.stage = "args" /\ boot.direct
  /\ boot' = [boot EXCEPT !.stage = "constructed", !.bind = boot.fileBind]
  /\ UNCHANGED << requestVars, cfg, logFile, doctor, cli >>

\* server.listen(port, bind): without a host the server listens on the
\* unspecified address, :: or 0.0.0.0
Start ==
  /\ boot.stage = "constructed"
  /\ \E any \in { "::", "0.0.0.0" } :
       boot' = [boot EXCEPT !.stage = "listening",
                            !.listening = IF boot.bind = "" THEN any ELSE boot.bind]
  /\ UNCHANGED << requestVars, cfg, logFile, doctor, cli >>

BootSpec == BootInit /\ [][RunForeground \/ Construct \/ Start]_vars

\* C23: in every configuration (bind field present or not, --bind override,
\* config object given to the constructor) a started proxy listens on a
\* loopback address only.
C23_ListensOnLoopbackOnly ==
  boot.stage = "listening" => boot.listening \in LoopbackAddresses

\* a header value of the file that names an environment variable
IsEnvRef(value) == value # << >> /\ value[1] = "$"

\* the values of the header maps of the file, backend by backend
RawHeaderValues(raw) ==
  UNION { { raw.backends[i].headers[j] : j \in 1..Len(raw.backends[i].headers) } :
          i \in { k \in 1..Len(raw.backends) : raw.backends[k].hasHeaders } }

\* C24: loadConfig throws or returns a validated config.  It throws when
\* backends is missing or empty, when a backend has no target, and when a
\* header value references a variable that is not set; when it returns, port
\* and bind carry the file's value or the default 9999 and 127.0.0.1, every
\* backend has a header map (empty when the file had none), a value that was a
\* reference is the variable's non-empty value and any other value is kept.
C24_LoadConfigThrowsOrValidates ==
  cfg.stage = "done" =>
    LET raw == cfg.raw
        result == cfg.result
    IN  /\ ( \/ raw.kind # "object"
             \/ raw.backends = << >>
             \/ \E i \in 1..Len(raw.backends) : raw.backends[i].target = ""
             \/ \E v \in RawHeaderValues(raw) :
                  IsEnvRef(v) /\ Tail(v) \notin DOMAIN ProcessEnv )
           => ~result.ok
        /\ result.ok =>
             /\ result.config.port = (IF raw.port = 0 THEN 9999 ELSE raw.port)
             /\ result.config.bind = (IF raw.bind = "" THEN "127.0.0.1" ELSE raw.bind)
             /\ Len(result.config.backends) = Len(raw.backends)
             /\ \A i \in 1..Len(raw.backends) :
                  LET before == raw.backends[i]
                      after == result.config.backends[i]
                  IN  /\ after.target = before.target
                      /\ after.hasHeaders
                      /\ Len(after.headers) = Len(before.headers)
                      /\ ~before.hasHeaders => after.headers = << >>
                      /\ \A j \in 1..Len(before.headers) :
                           /\ after.headers[j] # << >>
                           /\ after.headers[j] =
                                IF IsEnvRef(before.headers[j])
                                THEN ProcessEnv[Tail(before.headers[j])]
                                ELSE before.headers[j]

\* a file without port and bind, with a backend without headers and a backend
\* whose header names a variable that is set, has been loaded
C24_Witness ==
  /\ cfg.stage = "done"
  /\ cfg.result.ok
  /\ cfg.raw.port = 0 /\ cfg.raw.bind = ""
  /\ \E i \in 1..Len(cfg.raw.backends) : ~cfg.raw.backends[i].hasHeaders
  /\ \E v \in RawHeaderValues(cfg.raw) : IsEnvRef(v)

\* C25: a request is audit-logged before it is forwarded: whenever the
\* upstream request of an allowed request has been opened, an audit entry for
\* the request has already been written.
C25_AuditedBeforeForwarding ==
  up.opened => \E i \in 1..Len(auditLog) : auditLog[i].backend = route.backendName

\* C26: the proxy opens at most one upstream request for a request and opens
\* no further one after the upstream connection has failed; a denied request
\* and a health check open none.
C26_AtMostOneUpstreamRequest ==
  /\ up.opens <= 1
  /\ up.opened <=> up.opens = 1
  /\ pc \in { "denied", "health" } => up.opens = 0 /\ proxyReq = "none"

\* the upstream connection of a forwarded request has failed and the 'error'
\* listener has run
C26_Witness ==
  /\ pc = "forwarding"
  /\ proxyReq = "failed" /\ errorEmitted
  /\ client.status = 502
  /\ up.opens = 1

(***************************************************************************)
(* Two requests in flight on one server.  The request variables hold the   *)
(* request whose event the event loop runs; the variables of the other one *)
(* are parked.  Both share the process, the audit log and the backend      *)
(* table.                                                                  *)
(***************************************************************************)
\* everything handleRequest and forward keep per call
RequestState ==
  [url |-> url, method |-> method, wireHeaders |-> wireHeaders, pc |-> pc, route |-> route,
   res |-> res, client |-> client, sockDestroyed |-> sockDestroyed, reqState |-> reqState,
   received |-> received, inChunks |-> inChunks, up |-> up, proxyReq |-> proxyReq,
   errorEmitted |-> errorEmitted, proxyRes |-> proxyRes,
   proxyResHeaders |-> proxyResHeaders, upWritten |-> upWritten, upEnded |-> upEnded]

\* a request as the 'request' listener receives it
NewRequest(u, m) ==
  [url |-> u, method |-> m, wireHeaders |-> << HostLine >>, pc |-> "received",
   route |-> NoRoute, res |-> NoRes, client |-> [status |-> 0, ended |-> FALSE],
   sockDestroyed |-> FALSE, reqState |-> "flowing", received |-> 0, inChunks |-> << >>,
   up |-> NoUp, proxyReq |-> "none", errorEmitted |-> FALSE, proxyRes |-> "none",
   proxyResHeaders |-> << >>, upWritten |-> << >>, upEnded |-> FALSE]

\* a POST to a backend, and a second request: a health check, an unknown
\* backend, a forwarded request or the name of an inherited property
PairInit ==
  /\ url \in CoreUrls /\ method = "POST" /\ wireHeaders = << HostLine >>
  /\ InitRest
  /\ NoAllowCall
  /\ NoSideCalls
  /\ sinkFails = FALSE
  /\ cur = 1
  /\ parked \in { NewRequest(u, "GET") :
                   u \in { HealthUrl,
                           << "/" >> \o NameU \o << "/" >>,
                           << "/" >> \o NameA \o << "/" >>,
                           << "/" >> \o NameC \o << "/" >> } }

\* the event loop turns to an event of the other request
Switch ==
  /\ pc # "crashed" /\ parked.pc # "crashed"
  /\ cur' = 3 - cur
  /\ parked' = RequestState
  /\ url' = parked.url /\ method' = parked.method /\ wireHeaders' = parked.wireHeaders
  /\ pc' = parked.pc /\ route' = parked.route /\ res' = parked.res
  /\ client' = parked.client /\ sockDestroyed' = parked.sockDestroyed
  /\ reqState' = parked.reqState /\ received' = parked.received
  /\ inChunks' = parked.inChunks /\ up' = parked.up /\ proxyReq' = parked.proxyReq
  /\ errorEmitted' = parked.errorEmitted /\ proxyRes' = parked.proxyRes
  /\ proxyResHeaders' = parked.proxyResHeaders /\ upWritten' = parked.upWritten
  /\ upEnded' = parked.upEnded
  /\ UNCHANGED << sinkFails, argPath, argPatterns, isAllowed, boot, cfg, logFile, doctor, cli,
                  auditLog >>

\* an exception thrown in a listener is uncaught: the process ends and the
\* connection of every other request in flight is lost
ProcessExit ==
  /\ pc = "crashed" /\ parked.pc # "crashed"
  /\ parked' = [parked EXCEPT !.pc = "crashed", !.sockDestroyed = TRUE]
  /\ UNCHANGED << url, method, wireHeaders, sinkFails, argPath, argPatterns, isAllowed,
                  boot, cfg, cur, logFile, doctor, cli, pc, route, res, client, sockDestroyed,
                  inboundVars, upstreamVars, auditLog >>

PairSpec == PairInit /\ [][HandleRequest \/ Events \/ Switch \/ ProcessExit]_vars

\* C27: requests in flight together do not affect each other: a step taken
\* for one request leaves the state of the other request (its denial, its
\* counted bytes, its response, its upstream request) as it was.
C27_RequestsIsolated == [][cur' = cur => parked' = parked]_vars

(***************************************************************************)
(* AuditLog on its own: open, write, close and read on one log file.  The  *)
(* file is text, a sequence of characters; a number or a boolean literal   *)
(* is one element of it.  An entry is the sequence of its defined          *)
(* properties in insertion order.                                          *)
(***************************************************************************)
MaxWrites == 2

\* a property of an entry: its key and its value, a string [s], a number
\* [n] or a boolean [b]
Member(key, value) == [key |-> key, value |-> value]

\* the numbers an entry carries as status or durationMs
EntryNumbers == { 0, 12, 200, 403, 502 }

\* ts, backend, method, path and allowed of the entries written
EntryHead(backend, path) ==
  << Member(<< "t", "s" >>, [s |-> << "2", "0", "2", "6" >>]),
     Member(<< "b", "a", "c", "k", "e", "n", "d" >>, [s |-> backend]),
     Member(<< "m", "e", "t", "h", "o", "d" >>, [s |-> << "G", "E", "T" >>]),
     Member(<< "p", "a", "t", "h" >>, [s |-> path]) >>


\* an entry of a denial: the reason quotes the backend name
EntryDenied ==
  EntryHead(<< "n", "o", "n", "e" >>, << "/", "u", "/" >>)
  \o << Member(<< "s", "t", "a", "t", "u", "s" >>, [n |-> 403]),
        Member(<< "a", "l", "l", "o", "w", "e", "d" >>, [b |-> FALSE]),
        Member(<< "r", "e", "a", "s", "o", "n" >>,
               [s |-> << "n", "o", " ", "\"", "u", "\"" >>]) >>

\* an entry of an upstream error: the message holds a line break, a
\* backslash and the letter n
EntryFailed ==
  EntryHead(<< "a" >>, << "/", "v", "1" >>)
  \o << Member(<< "s", "t", "a", "t", "u", "s" >>, [n |-> 502]),
        Member(<< "d", "u", "r", "a", "t", "i", "o", "n", "M", "s" >>, [n |-> 0]),
        Member(<< "a", "l", "l", "o", "w", "e", "d" >>, [b |-> TRUE]),
        Member(<< "r", "e", "a", "s", "o", "n" >>,
               [s |-> << "e", "\n", "\\", "n", "}" >>]) >>

\* an entry without any optional field
EntryPlain ==
  EntryHead(<< "b" >>, << "/" >>)
  \o << Member(<< "a", "l", "l", "o", "w", "e", "d" >>, [b |-> FALSE]) >>

\* the entries given to write: those above and one of a relayed response
Entries ==
  { EntryDenied, EntryFailed, EntryPlain,
    EntryHead(<< "a" >>, << "/", "v", "1" >>)
    \o << Member(<< "s", "t", "a", "t", "u", "s" >>, [n |-> 200]),
          Member(<< "d", "u", "r", "a", "t", "i", "o", "n", "M", "s" >>, [n |-> 12]),
          Member(<< "a", "l", "l", "o", "w", "e", "d" >>, [b |-> TRUE]) >> }

\* the characters of a string literal: quote, backslash and line break escaped
RECURSIVE JsonEscape(_)
JsonEscape(str) ==
  IF str = << >> THEN << >>
  ELSE (CASE Head(str) = "\"" -> << "\\", "\"" >>
          [] Head(str) = "\\" -> << "\\", "\\" >>
          [] Head(str) = "\n" -> << "\\", "n" >>
          [] OTHER -> << Head(str) >>)
       \o JsonEscape(Tail(str))

\* a string literal with its characters written as they are
JsonStringRaw(str) == << "\"" >> \o str \o << "\"" >>

\* a string literal
JsonString(str) == << "\"" >> \o JsonEscape(str) \o << "\"" >>

JsonValue(v) ==
  IF "s" \in DOMAIN v THEN JsonString(v.s)
  ELSE IF "n" \in DOMAIN v THEN << ToString(v.n) >>
  ELSE << IF v.b THEN "true" ELSE "false" >>

RECURSIVE JsonMembers(_)
JsonMembers(ms) ==
  IF ms = << >> THEN << >>
  ELSE JsonString(ms[1].key) \o << ":" >> \o JsonValue(ms[1].value)
       \o (IF Len(ms) > 1 THEN << "," >> \o JsonMembers(Tail(ms)) ELSE << >>)

\* JSON.stringify(entry)
JSON_stringify(entry) == << "{" >> \o JsonMembers(entry) \o << "}" >>

ParseFailed == [ok |-> FALSE, value |-> << >>, next |-> 0]

\* a string literal from the character after its opening quote
RECURSIVE ParseStringFrom(_, _, _)
ParseStringFrom(t, i, acc) ==
  IF i > Len(t) \/ t[i] = "\n" THEN ParseFailed
  ELSE IF t[i] = "\"" THEN [ok |-> TRUE, value |-> acc, next |-> i + 1]
  ELSE IF t[i] = "\\"
  THEN IF i + 1 > Len(t) THEN ParseFailed
       ELSE IF t[i + 1] = "n" THEN ParseStringFrom(t, i + 2, Append(acc, "\n"))
       ELSE IF t[i + 1] \in { "\"", "\\" } THEN ParseStringFrom(t, i + 2, Append(acc, t[i + 1]))
       ELSE ParseFailed
  ELSE ParseStringFrom(t, i + 1, Append(acc, t[i]))

ParseValueAt(t, i) ==
  IF i > Len(t) THEN ParseFailed
  ELSE IF t[i] = "\""
  THEN LET str == ParseStringFrom(t, i + 1, << >>)
       IN  [ok |-> str.ok, value |-> [s |-> str.value], next |-> str.next]
  ELSE IF t[i] \in { ToString(n) : n \in EntryNumbers }
  THEN [ok |-> TRUE, value |-> [n |-> CHOOSE n \in EntryNumbers : ToString(n) = t[i]],
        next |-> i + 1]
  ELSE IF t[i] \in { "true", "false" }
  THEN [ok |-> TRUE, value |-> [b |-> t[i] = "true"], next |-> i + 1]
  ELSE [ok |-> FALSE, value |-> [b |-> FALSE], next |-> 0]

\* the members of an object from the first character of a key
RECURSIVE ParseMembersFrom(_, _, _)
ParseMembersFrom(t, i, acc) ==
  IF i > Len(t) \/ t[i] # "\"" THEN ParseFailed
  ELSE LET key == ParseStringFrom(t, i + 1, << >>)
       IN  IF ~key.ok \/ key.next > Len(t) \/ t[key.next] # ":" THEN ParseFailed
           ELSE LET v == ParseValueAt(t, key.next + 1)
                    members == Append(acc, Member(key.value, v.value))
                IN  IF ~v.ok \/ v.next > Len(t) THEN ParseFailed
                    ELSE IF t[v.next] = "," THEN ParseMembersFrom(t, v.next + 1, members)
                    ELSE IF t[v.next] = "}" /\ v.next = Len(t)
                    THEN [ok |-> TRUE, value |-> members, next |-> v.next + 1]
                    ELSE ParseFailed

\* JSON.parse(line): ok is false where it throws
JSON_parse(t) ==
  IF Len(t) < 2 \/ t[1] # "{" THEN ParseFailed
  ELSE IF t[2] = "}"
  THEN (IF Len(t) = 2 THEN [ok |-> TRUE, value |-> << >>, next |-> 3] ELSE ParseFailed)
  ELSE ParseMembersFrom(t, 2, << >>)

\* content.trim()
RECURSIVE trim(_)
trim(t) ==
  IF t = << >> THEN t
  ELSE IF t[1] \in { "\n", " " } THEN trim(Tail(t))
  ELSE IF t[Len(t)] \in { "\n", " " } THEN trim(SubSeq(t, 1, Len(t) - 1))
  ELSE t

\* content.split('\n'): the pieces between the line breaks
split(t) ==
  LET breaks == { i \in 1..Len(t) : t[i] = "\n" }
      ends == breaks \cup { Len(t) + 1 }
      before(e) == { j \in breaks : j < e }
      start(e) == IF before(e) = {} THEN 1
                  ELSE 1 + CHOOSE j \in before(e) : \A k \in before(e) : k <= j
  IN  [n \in 1..Cardinality(ends) |->
         LET e == CHOOSE x \in ends : Cardinality(before(x)) = n - 1
         IN  SubSeq(t, start(e), e - 1)]

\* the line of an entry without the line break after it
lineWithoutBreak(entry) == JSON_stringify(entry)

\* const line = JSON.stringify(entry) + '\n'
line(entry) == JSON_stringify(entry) \o << "\n" >>

\* AuditLog.read(): a missing file and a line that does not parse both throw
\* inside the try block
read(file) ==
  IF ~file.exists THEN << >>
  ELSE LET lines == SelectSeq(split(trim(file.content)), LAMBDA l : Len(l) > 0)
           parsed == [i \in 1..Len(lines) |-> JSON_parse(lines[i])]
       IN  IF \E i \in 1..Len(lines) : ~parsed[i].ok THEN << >>
           ELSE [i \in 1..Len(lines) |-> parsed[i].value]

\* the log file before open(): missing, empty, or left by an earlier session
\* with one entry in it
AuditInit ==
  /\ RequestIdle
  /\ boot = Unused /\ cfg = Unused /\ doctor = Unused /\ cli = Unused
  /\ \E f \in { [exists |-> FALSE, content |-> << >>, earlier |-> << >>],
                [exists |-> TRUE, content |-> << >>, earlier |-> << >>],
                [exists |-> TRUE, content |-> JSON_stringify(EntryPlain) \o << "\n" >>,
                 earlier |-> << EntryPlain >>] } :
       logFile = [stage |-> "used", fd |-> "null", exists |-> f.exists,
                  content |-> f.content, earlier |-> f.earlier, calls |-> 0,
                  written |-> << >>, readDone |-> FALSE, readAfter |-> 0,
                  result |-> << >>]

\* AuditLog.open(): openSync(logPath, 'a') creates a missing file
Open ==
  /\ logFile' = [logFile EXCEPT !.fd = "open", !.exists = TRUE]
  /\ UNCHANGED << requestVars, boot, cfg, doctor, cli >>

\* AuditLog.write(entry)
Write(entry) ==
  /\ logFile.calls < MaxWrites
  /\ logFile' = IF logFile.fd = "null"
                THEN [logFile EXCEPT !.calls = @ + 1]
                ELSE [logFile EXCEPT !.calls = @ + 1,
                                     !.content = @ \o line(entry),
                                     !.written = Append(@, entry)]
  /\ UNCHANGED << requestVars, boot, cfg, doctor, cli >>

\* AuditLog.close()
Close ==
  /\ logFile' = [logFile EXCEPT !.fd = "null"]
  /\ UNCHANGED << requestVars, boot, cfg, doctor, cli >>

\* AuditLog.read()
Read ==
  /\ logFile' = [logFile EXCEPT !.readDone = TRUE, !.readAfter = Len(logFile.written),
                                !.result = read(logFile)]
  /\ UNCHANGED << requestVars, boot, cfg, doctor, cli >>

AuditSpec ==
  AuditInit /\ [][Open \/ (\E entry \in Entries : Write(entry)) \/ Close \/ Read]_vars

\* C28: every entry is appended as one complete JSON line: the file is empty
\* or ends with a line break, every line parses as an entry, and the lines
\* added to the file are as many as the write calls made while the log was
\* open.
C28_OneCompleteLinePerWrite ==
  LET pieces == split(logFile.content)
  IN  /\ pieces[Len(pieces)] = << >>
      /\ \A i \in 1..(Len(pieces) - 1) : JSON_parse(pieces[i]).ok
      /\ Len(pieces) - 1 = Len(logFile.earlier) + Len(logFile.written)
      /\ Len(logFile.written) <= logFile.calls
      /\ ~logFile.exists => logFile.content = << >> /\ logFile.written = << >>

\* of two write calls one was made while the log was closed and one while it
\* was open, with an entry whose reason holds a line break
C28_Witness ==
  /\ Len(logFile.written) = 1
  /\ logFile.calls = 2
  /\ logFile.written[1] = EntryFailed

\* C29: read() returns the entries written between open() and close(), one
\* per write, in the order written and with equal properties, after the
\* entries the file held before; on a missing file it returns an empty list.
C29_ReadReturnsWritten ==
  logFile.readDone =>
    /\ logFile.result = logFile.earlier \o SubSeq(logFile.written, 1, logFile.readAfter)
    /\ ~logFile.exists => logFile.result = << >>

\* read() has returned two different entries written in this session, one
\* without optional fields and one whose reason holds a line break
C29_Witness ==
  /\ logFile.readDone
  /\ logFile.fd = "null"
  /\ logFile.readAfter = 2
  /\ logFile.written = << EntryFailed, EntryDenied >>
  /\ Len(logFile.result) = 2

(***************************************************************************)
(* envDoctor on its own: an environment of at most MaxEnvVars variables.   *)
(* A line of stderr is a sequence of characters; the reason of a finding   *)
(* and a fixed line of the warning are one element each.                   *)
(***************************************************************************)
MaxEnvVars == 2

SAFE_VALUES ==
  { << "p", "r", "o", "x", "y", "-", "m", "a", "n", "a", "g", "e", "d" >>, << "p", "l", "a", "c", "e", "h", "o", "l", "d", "e", "r" >>, << "n", "o", "n", "e" >>, << "d", "i", "s", "a", "b", "l", "e", "d" >>, << "f", "a", "l", "s", "e" >>, << >> }

SAFE_NAMES ==
  { << "T", "E", "R", "M" >>, << "C", "O", "L", "O", "R", "T", "E", "R", "M" >>, << "S", "S", "H", "_", "A", "U", "T", "H", "_", "S", "O", "C", "K" >>, << "G", "P", "G", "_", "A", "G", "E", "N", "T", "_", "I", "N", "F", "O" >>,
    << "D", "B", "U", "S", "_", "S", "E", "S", "S", "I", "O", "N", "_", "B", "U", "S", "_", "A", "D", "D", "R", "E", "S", "S" >>, << "X", "D", "G", "_", "S", "E", "S", "S", "I", "O", "N", "_", "T", "Y", "P", "E" >>, << "T", "O", "K", "E", "N", "I", "Z", "E", "R", "S", "_", "P", "A", "R", "A", "L", "L", "E", "L", "I", "S", "M" >> }

\* SAFE_NAMES first, then SECRET_PATTERNS: /key$/i, /token$/i, /secret$/i,
\* /password$/i, /credential/i, /^auth/i, /_auth$/i, /api.?key/i, /bearer/i,
\* /private/i
isSuspectName(name) ==
  LET n == Lower(name)
  IN  /\ name \notin SAFE_NAMES
      /\ \/ EndsWith(n, << "k", "e", "y" >>)
         \/ EndsWith(n, << "t", "o", "k", "e", "n" >>)
         \/ EndsWith(n, << "s", "e", "c", "r", "e", "t" >>)
         \/ EndsWith(n, << "p", "a", "s", "s", "w", "o", "r", "d" >>)
         \/ Includes(n, << "c", "r", "e", "d", "e", "n", "t", "i", "a", "l" >>)
         \/ StartsWith(n, << "a", "u", "t", "h" >>)
         \/ EndsWith(n, << "_", "a", "u", "t", "h" >>)
         \/ Includes(n, << "a", "p", "i", "k", "e", "y" >>)
         \/ \E i \in 1..(Len(n) - 6) :
              /\ SubSeq(n, i, i + 2) = << "a", "p", "i" >>
              /\ n[i + 3] # "\n"
              /\ SubSeq(n, i + 4, i + 6) = << "k", "e", "y" >>
         \/ Includes(n, << "b", "e", "a", "r", "e", "r" >>)
         \/ Includes(n, << "p", "r", "i", "v", "a", "t", "e" >>)

\* the prefixes of VALUE_PATTERNS in their order, with their labels
VALUE_PATTERNS ==
  << [pattern |-> << "s", "k", "-", "a", "n", "t", "-" >>, label |-> "Anthropic API key"],
     [pattern |-> << "s", "k", "-" >>, label |-> "OpenAI API key"],
     [pattern |-> << "g", "h", "p", "_" >>, label |-> "GitHub PAT"],
     [pattern |-> << "g", "h", "o", "_" >>, label |-> "GitHub OAuth token"],
     [pattern |-> << "g", "h", "s", "_" >>, label |-> "GitHub App token"],
     [pattern |-> << "g", "i", "t", "h", "u", "b", "_", "p", "a", "t", "_" >>, label |-> "GitHub fine-grained PAT"],
     [pattern |-> << "B", "e", "a", "r", "e", "r", " " >>, label |-> "Bearer token"],
     [pattern |-> << "A", "K", "I", "A" >>, label |-> "AWS access key"],
     [pattern |-> << "x", "o", "x", "b", "-" >>, label |-> "Slack bot token"],
     [pattern |-> << "x", "o", "x", "p", "-" >>, label |-> "Slack user token"],
     [pattern |-> << "e", "y", "J" >>, label |-> "JWT token"] >>

\* a value shown in full before the stars
redactNothing(value) == value \o << "*", "*", "*" >>

redact(value) ==
  IF Len(value) <= 4 THEN << "*", "*", "*" >>
  ELSE SubSeq(value, 1, 4) \o << "*", "*", "*" >>

\* the label of the first pattern that matches, "" for null
identifyValue(value) ==
  LET hits == { i \in 1..Len(VALUE_PATTERNS) : StartsWith(value, VALUE_PATTERNS[i].pattern) }
  IN  IF hits = {} THEN ""
      ELSE VALUE_PATTERNS[CHOOSE i \in hits : \A j \in hits : i <= j].label

\* the loop body of envDoctor: does the variable give a finding
IsFinding(var) ==
  /\ var.value # << >>
  /\ Lower(var.value) \notin SAFE_VALUES
  /\ identifyValue(var.value) # "" \/ isSuspectName(var.name)

Finding(var) ==
  [name |-> var.name, redacted |-> redact(var.value),
   reason |-> IF identifyValue(var.value) # "" THEN identifyValue(var.value)
              ELSE "name matches secret pattern"]

\* envDoctor(): the findings returned and the lines written to stderr
envDoctor(env) ==
  LET reported == SelectSeq(env, IsFinding)
      findings == [i \in 1..Len(reported) |-> Finding(reported[i])]
  IN  [findings |-> findings,
       stderr |-> IF Len(findings) > 0
                  THEN << << >>, << "WARNING: Potential secrets found in environment" >>, << >> >>
                       \o [i \in 1..Len(findings) |->
                            << " ", " " >> \o findings[i].name \o << " ", "=", " " >>
                            \o findings[i].redacted
                            \o << " ", " ", "(", findings[i].reason, ")" >>]
                       \o << << >>,
                             << "These should be managed by the agentauth proxy" >>,
                             << >> >>
                  ELSE << >>]

\* Object.entries(process.env): variables with different names.  The values:
\* two known prefixes (one of 4 characters), values of 4 and of 7 characters,
\* a safe value in mixed case, a short prefixed value, and the empty string
Environments ==
  LET names == { << "A", "P", "I", "_", "K", "E", "Y" >>, << "G", "H", "_", "T", "O", "K", "E", "N" >>, << "S", "S", "H", "_", "A", "U", "T", "H", "_", "S", "O", "C", "K" >>, << "H", "O", "M", "E" >> }
      values ==
        { << "s", "k", "-", "a", "n", "t", "-", "a", "b", "c", "1" >>, << "s", "k", "-", "1" >>, << "a", "b", "c", "d" >>, << "h", "u", "n", "t", "e", "r", "2" >>, << "P", "r", "o", "x", "y", "-", "M", "a", "n", "a", "g", "e", "d" >>, << "g", "h", "p", "_", "x" >>, << >> }
  IN  { env \in SeqsUpTo([name : names, value : values], MaxEnvVars) :
          \A i, j \in 1..Len(env) : i # j => env[i].name # env[j].name }

DoctorInit ==
  /\ RequestIdle
  /\ boot = Unused /\ cfg = Unused /\ logFile = Unused /\ cli = Unused
  /\ doctor \in { [stage |-> "start", env |-> e, findings |-> << >>, stderr |-> << >>] :
                   e \in Environments }

EnvDoctor ==
  /\ doctor.stage = "start"
  /\ LET out == envDoctor(doctor.env)
     IN  doctor' = [doctor EXCEPT !.stage = "done", !.findings = out.findings,
                                  !.stderr = out.stderr]
  /\ UNCHANGED << requestVars, boot, cfg, logFile, cli >>

DoctorSpec == DoctorInit /\ [][EnvDoctor]_vars

\* the value of the variable a finding names
ValueOf(env, name) == (CHOOSE i \in 1..Len(env) : env[i].name = name)

\* C30: envDoctor emits no raw value.  For every variable it reports, the
\* redacted field is '***' for a value of at most 4 characters and the first
\* 4 characters followed by '***' otherwise, the line written to stderr shows
\* the name, that redacted text and the reason, and the value itself occurs
\* in no finding and in no line of stderr.
C30_OnlyRedactedValuesEmitted ==
  doctor.stage = "done" =>
    \A i \in 1..Len(doctor.findings) :
      LET f == doctor.findings[i]
          value == doctor.env[ValueOf(doctor.env, f.name)].value
          stars == << "*", "*", "*" >>
      IN  /\ Len(value) <= 4 => f.redacted = stars
          /\ Len(value) > 4 => f.redacted = << value[1], value[2], value[3], value[4] >> \o stars
          /\ ~Includes(f.redacted, value)
          /\ \E k \in 1..Len(doctor.stderr) :
               doctor.stderr[k] = << " ", " " >> \o f.name \o << " ", "=", " " >>
                                  \o f.redacted \o << " ", " ", "(", f.reason, ")" >>
          /\ \A k \in 1..Len(doctor.stderr) : ~Includes(doctor.stderr[k], value)

\* envDoctor has reported a value of more than 4 characters and one of at
\* most 4 characters
C30_Witness ==
  /\ doctor.stage = "done"
  /\ Len(doctor.findings) = 2
  /\ \E i, j \in 1..2 :
       /\ Len(doctor.env[ValueOf(doctor.env, doctor.findings[i].name)].value) > 4
       /\ Len(doctor.env[ValueOf(doctor.env, doctor.findings[j].name)].value) <= 4

\* the decoded path handleRequest holds once the backend lookup has passed
HeldPath == IF route.kind = "forward" THEN route.targetPath ELSE route.reasonArg

\* a percent sign followed by two hexadecimal digits
HasEscape(p) ==
  \E i \in 1..(Len(p) - 2) : p[i] = "%" /\ HexVal(p[i + 1]) >= 0 /\ HexVal(p[i + 2]) >= 0

\* C31: whenever handleRequest has reached the allowlist check or has called
\* forward, the decoded path it holds has no ".." in it and no percent-escape
\* left to resolve.
C31_HeldPathFullyDecoded ==
  (route.kind = "forward" \/ (route.kind = "deny" /\ route.code = "path_denied"))
    => ~Includes(HeldPath, << ".", "." >>) /\ ~HasEscape(HeldPath)

\* the bytes of a sequence of chunks
RECURSIVE TotalBytes(_)
TotalBytes(chunks) ==
  IF chunks = << >> THEN 0 ELSE Head(chunks) + TotalBytes(Tail(chunks))

\* C32: the body bytes written to the upstream never total more than the
\* backend's maxBodyBytes (DEFAULT_MAX_BODY_BYTES when it sets none): the
\* chunks written are the chunks received up to, and without, the one that
\* takes the count over the limit.
C32_UpstreamBodyWithinLimit ==
  Forwarded =>
    /\ TotalBytes(upWritten) <= MaxBodyOf(Backend)
    /\ Len(upWritten) <= Len(inChunks)
    /\ upWritten = SubSeq(inChunks, 1, Len(upWritten))
    /\ \A n \in 1..Len(inChunks) :
         TotalBytes(SubSeq(inChunks, 1, n)) > MaxBodyOf(Backend) => Len(upWritten) < n

\* a chunk was written, then a chunk took the count over the limit of a
\* backend that sets maxBodyBytes and was not written
C32_Witness ==
  /\ Forwarded
  /\ Backend.hasMaxBody
  /\ Len(inChunks) = 2 /\ Len(upWritten) = 1
  /\ received > MaxBodyOf(Backend)
  /\ reqState = "destroyed"

\* the name of a header the backend injects, compared in lowercase
IsInjectedName(k) == \E i \in 1..Len(Backend.headers) : Lower(Backend.headers[i].name) = k

\* C33: the headers of the upstream request are exactly the headers of
\* req.headers other than host and connection, each with its value unchanged
\* unless the backend injects a header of that name, and the injected headers:
\* the client's host and connection headers are not among them and no other
\* client header is missing.
C33_OutboundHeadersExact ==
  up.opened =>
    LET inbound == IncomingHeaders(wireHeaders, << >>)
        hopByHop == { << "h", "o", "s", "t" >>,
                      << "c", "o", "n", "n", "e", "c", "t", "i", "o", "n" >> }
    IN  /\ \A k \in hopByHop : ~HasKey(up.headers, k)
        /\ \A i \in 1..Len(inbound) :
             inbound[i].name \notin hopByHop =>
               /\ HasKey(up.headers, inbound[i].name)
               /\ ~IsInjectedName(inbound[i].name) =>
                    GetKey(up.headers, inbound[i].name) = inbound[i].value
        /\ \A i \in 1..Len(up.headers) :
             \/ IsInjectedName(up.headers[i].name)
             \/ /\ up.headers[i].name \notin hopByHop
                /\ HasKey(inbound, up.headers[i].name)

\* a forwarded request that carried a connection header and a header the
\* backend does not inject
C33_Witness ==
  /\ up.opened
  /\ \E i \in 1..Len(wireHeaders) :
       Lower(wireHeaders[i].name) = << "c", "o", "n", "n", "e", "c", "t", "i", "o", "n" >>
  /\ \E i \in 1..Len(wireHeaders) :
       /\ Lower(wireHeaders[i].name) = << "a", "c", "c", "e", "p", "t" >>
       /\ HasKey(up.headers, << "a", "c", "c", "e", "p", "t" >>)

\* C34: once the upstream has returned response headers, the client has the
\* upstream's status code, the audit log has an entry of the request with
\* that status, a durationMs and allowed true, and when the upstream body has
\* ended the client has that body, whole and as the upstream sent it.
C34_UpstreamResponseRelayed ==
  Relayed =>
    /\ res.status \in UpstreamStatuses
    /\ client.status = res.status
    /\ \E i \in 1..Len(auditLog) :
         /\ auditLog[i].backend = route.backendName
         /\ auditLog[i].hasStatus /\ auditLog[i].status = res.status
         /\ auditLog[i].hasDuration
         /\ auditLog[i].allowed
         /\ auditLog[i].reasonText = ""
    /\ proxyRes = "ended" =>
         /\ res.ended
         /\ res.body \in { UpstreamBody(echo) : echo \in BOOLEAN }
         /\ ~sockDestroyed => client.ended

\* an upstream answer 404 with its body has been relayed to the end
C34_Witness ==
  /\ Relayed
  /\ proxyRes = "ended"
  /\ client.status = 404 /\ client.ended
  /\ res.body = UpstreamBody(FALSE)

(***************************************************************************)
(* cmdInit: the config file generated from the environment, then loaded.   *)
(***************************************************************************)

\* the name of an environment variable as text
EnvName(name) ==
  CASE name = "ANTHROPIC_API_KEY" ->
         << "A", "N", "T", "H", "R", "O", "P", "I", "C", "_", "A", "P", "I", "_", "K", "E", "Y" >>
    [] name = "OPENAI_API_KEY" ->
         << "O", "P", "E", "N", "A", "I", "_", "A", "P", "I", "_", "K", "E", "Y" >>
    [] name = "GITHUB_TOKEN" ->
         << "G", "I", "T", "H", "U", "B", "_", "T", "O", "K", "E", "N" >>
    [] name = "GITHUB_TOKEN_BEARER" ->
         << "G", "I", "T", "H", "U", "B", "_", "T", "O", "K", "E", "N", "_", "B", "E", "A", "R", "E", "R" >>

\* process.env[name] is a non-empty string
IsSet(env, name) == EnvName(name) \in DOMAIN env /\ env[EnvName(name)] # << >>

\* the environments cmdInit is run in: each of the four variables is unset,
\* empty, or one of two tokens
InitEnvironments ==
  LET names == { EnvName(n) : n \in { "ANTHROPIC_API_KEY", "OPENAI_API_KEY",
                                      "GITHUB_TOKEN", "GITHUB_TOKEN_BEARER" } }
      values == { << >>, << "s", "k", "-", "1" >>, << "g", "h", "p", "_", "2" >> }
  IN  UNION { [S -> values] : S \in SUBSET names }

\* the variable that holds the credential of a detected backend
DetectedEnvVar(env, name) ==
  CASE name = "anthropic" -> "ANTHROPIC_API_KEY"
    [] name = "openai" -> "OPENAI_API_KEY"
    [] name = "github" ->
         IF IsSet(env, "GITHUB_TOKEN_BEARER") THEN "GITHUB_TOKEN_BEARER" ELSE "GITHUB_TOKEN"

\* the backends whose API key is in the environment, in insertion order
Detected(env) ==
  SelectSeq(<< "anthropic", "openai", "github" >>,
            LAMBDA name :
              CASE name = "anthropic" -> IsSet(env, "ANTHROPIC_API_KEY")
                [] name = "openai" -> IsSet(env, "OPENAI_API_KEY")
                [] name = "github" ->
                     IsSet(env, "GITHUB_TOKEN") \/ IsSet(env, "GITHUB_TOKEN_BEARER"))

\* the backend entry written for a detected backend: the credential header
\* first, then the fixed headers
InitBackend(env, name) ==
  LET ref == << "$" >> \o EnvName(DetectedEnvVar(env, name))
      bearer == << "B", "e", "a", "r", "e", "r", " " >>
  IN  CASE name = "anthropic" ->
             [target |-> "https://api.anthropic.com", hasHeaders |-> TRUE,
              headers |-> << ref, << "2", "0", "2", "3", "-", "0", "6", "-", "0", "1" >> >>]
        [] name = "openai" ->
             [target |-> "https://api.openai.com", hasHeaders |-> TRUE,
              headers |-> << bearer \o ref >>]
        [] name = "github" ->
             [target |-> "https://api.github.com", hasHeaders |-> TRUE,
              headers |-> << bearer \o ref, << "a", "p", "p", "/", "j", "s", "o", "n" >> >>]

\* cmdInit(args): nothing is written over an existing file; with no key in
\* the environment the anthropic placeholder is written
cmdInit(env, exists) ==
  IF exists
  THEN [wrote |-> FALSE, raw |-> RawConfig("missing", << >>, 0, "")]
  ELSE LET detected == Detected(env)
           backends ==
             IF Len(detected) = 0
             THEN << InitBackend(env, "anthropic") >>
             ELSE [i \in 1..Len(detected) |-> InitBackend(env, detected[i])]
       IN  [wrote |-> TRUE, raw |-> RawConfig("object", backends, 9999, "127.0.0.1")]

CmdInitInit ==
  /\ RequestIdle
  /\ boot = Unused /\ logFile = Unused /\ doctor = Unused /\ cli = Unused
  /\ cfg \in { [stage |-> "init", env |-> e, exists |-> x,
                raw |-> RawConfig("missing", << >>, 0, ""), result |-> Throws("")] :
                e \in InitEnvironments, x \in BOOLEAN }

\* agentauth init, followed by a start that loads the file it wrote
CmdInit ==
  /\ cfg.stage = "init"
  /\ LET written == cmdInit(cfg.env, cfg.exists)
     IN  cfg' = IF written.wrote
                THEN [cfg EXCEPT !.stage = "loading", !.raw = written.raw]
                ELSE [cfg EXCEPT !.stage = "exited"]
  /\ UNCHANGED << requestVars, boot, logFile, doctor, cli >>

CmdInitSpec == CmdInitInit /\ [][CmdInit \/ LoadConfig]_vars

\* a header value that still holds a reference to a variable
HasEnvRef(value) == \E i \in 1..(Len(value) - 1) : value[i] = "$"

\* C35: a config file written by cmdInit for the keys it detected loads, in
\* the same environment, into a backend table in which every credential header
\* contains the secret of its variable and no header value keeps a $NAME reference
C35_InitConfigLoadsSecrets ==
  (cfg.stage = "done" /\ Len(Detected(cfg.env)) > 0) =>
    /\ cfg.result.ok
    /\ LET detected == Detected(cfg.env)
           backends == cfg.result.config.backends
       IN  /\ Len(backends) = Len(detected)
           /\ \A i \in 1..Len(backends) :
                /\ \A j \in 1..Len(backends[i].headers) : ~HasEnvRef(backends[i].headers[j])
                /\ Includes(backends[i].headers[1],
                            cfg.env[EnvName(DetectedEnvVar(cfg.env, detected[i]))])

\* C36: the checks of handleRequest are applied in the order health path,
\* second '/', percent-decoding, '..', backend lookup, allowlist, and the
\* first that fails decides the denial, whatever the backend name is; the
\* audit entry of a denial names the backend only for path_denied, every
\* earlier denial recording 'none'
C36_FirstFailingCheckDecides ==
  pc # "received" =>
    LET noSlash == IndexOf(url, "/", 2) = 0
        decoded == decodeURIComponent(InboundPath(url))
        denied(code) == route.kind = "deny" /\ route.code = code
    IN  /\ url = HealthUrl => route.kind = "health"
        /\ (url # HealthUrl /\ noSlash) => denied("invalid_path")
        /\ (url # HealthUrl /\ ~noSlash /\ ~decoded.ok) => denied("invalid_path")
        /\ (url # HealthUrl /\ ~noSlash /\ decoded.ok /\ Includes(decoded.text, << ".", "." >>))
             => denied("path_traversal")
        /\ (denied("unknown_backend") \/ denied("path_denied") \/ route.kind = "forward")
             => ReachesLookup(url)
        /\ denied("unknown_backend") => BackendNameOf(url) \notin BackendNames
        /\ (denied("path_denied") \/ route.kind = "forward")
             => BackendNameOf(url) \in BackendNames \cup InheritedNames
        /\ pc = "denied" =>
             /\ Len(auditLog) = 1
             /\ auditLog[1].backend = IF route.code = "path_denied" THEN BackendNameOf(url)
                                      ELSE NoneBackend

\* C36 witness: a request to a backend that does not exist, whose path holds
\* '..' only after decoding, was denied path_traversal and audited under 'none'
C36_Witness ==
  /\ pc = "denied"
  /\ BackendNameOf(url) = NameU
  /\ route.code = "path_traversal"
  /\ ~Includes(InboundPath(url), << ".", "." >>)
  /\ auditLog[1].backend = NoneBackend

\* C36 witness for the malformed escape
C36_WitnessMalformed ==
  /\ pc = "denied"
  /\ BackendNameOf(url) = NameU
  /\ IndexOf(url, "/", 2) # 0
  /\ route.code = "invalid_path"

\* the request-target has a path that percent-decodes
Decodes(u) ==
  u # HealthUrl /\ IndexOf(u, "/", 2) # 0 /\ decodeURIComponent(InboundPath(u)).ok

\* C37: a handled request whose decoded path holds two consecutive dots
\* anywhere, inside a segment name included, is denied with path_traversal
\* and no upstream request is opened for it; a request whose decoded path
\* holds no two consecutive dots is never denied with path_traversal
C37_AnyDotDotIsTraversal ==
  pc # "received" =>
    LET traversal == route.kind = "deny" /\ route.code = "path_traversal"
        dotdot == Includes(decodeURIComponent(InboundPath(url)).text, << ".", "." >>)
    IN  /\ (Decodes(url) /\ dotdot) => (traversal /\ ~up.opened /\ pc \in { "denied", "crashed" })
        /\ traversal => (Decodes(url) /\ dotdot)

\* C37 witness: a path with '..' inside a segment name, and no '..' segment,
\* was denied with path_traversal
C37_Witness ==
  /\ pc = "denied"
  /\ route.code = "path_traversal"
  /\ client.status = 403
  /\ ~HasDotDotSegment(decodeURIComponent(InboundPath(url)).text)

(***************************************************************************)
(* agentauth start and agentauth stop around one PID file.  Every command  *)
(* is a process of its own; the commands and the daemons share the file    *)
(* system and the process table, so a step is one system call (or one      *)
(* wake-up from sleep) and the steps of different commands interleave.     *)
(* cli.file is the PID the file holds (0: no file), cli.alive the PIDs of  *)
(* the running daemons, cli.cmds the commands in progress.                 *)
(***************************************************************************)
MaxCmds == 2

\* a loop that gives up one poll early
FewerPolls == 20 - 1

\* for (let i = 0; i < 20; i++)
MaxPolls == 20

\* isProcessRunning(pid): process.kill(pid, 0) does not throw
isProcessRunning(pid) == pid \in cli.alive

\* no PID file; a PID file that names the running daemon; a stale PID file
CliInit ==
  /\ RequestIdle
  /\ boot = Unused /\ cfg = Unused /\ logFile = Unused /\ doctor = Unused
  /\ \E os \in { << 0, {} >>, << 1, { 1 } >>, << 1, {} >> } :
       \E kinds \in [1..MaxCmds -> { "start", "stop" }] :
         cli = [file |-> os[1], alive |-> os[2], nextPid |-> 2,
                cmds |-> [c \in 1..MaxCmds |->
                           [kind |-> kinds[c], pc |-> "begin", pid |-> 0, polls |-> 0,
                            sent |-> << >>]]]

\* the command moves on, with the PID it holds and the file as given
Goto(c, at, pid, file) ==
  cli' = [cli EXCEPT !.file = file, !.cmds[c].pc = at, !.cmds[c].pid = pid]

\* fs.readFileSync and fs.unlinkSync throw when the file is gone, process.kill
\* when the process is: the exception is not caught and ends the command
Throw(c) == cli' = [cli EXCEPT !.cmds[c].pc = "crashed"]

\* cmdStart(args), the config file being there
CmdStart(c) ==
  LET cmd == cli.cmds[c] IN
  /\ cmd.kind = "start"
  /\ CASE cmd.pc = "begin" ->     \* fs.existsSync(pidFile)
             Goto(c, IF cli.file = 0 THEN "spawn" ELSE "read", 0, cli.file)
       [] cmd.pc = "read" ->      \* existingPid = parseInt(fs.readFileSync(pidFile))
             IF cli.file = 0 THEN Throw(c) ELSE Goto(c, "probe", cli.file, cli.file)
       [] cmd.pc = "probe" ->     \* isProcessRunning(existingPid): already running, exit(1)
             Goto(c, IF isProcessRunning(cmd.pid) THEN "exited" ELSE "unlink", cmd.pid, cli.file)
       [] cmd.pc = "unlink" ->    \* stale PID file: fs.unlinkSync(pidFile)
             IF cli.file = 0 THEN Throw(c) ELSE Goto(c, "spawn", 0, 0)
       [] cmd.pc = "spawn" ->     \* child = spawn(process.execPath, daemonArgs, ...)
             cli' = [cli EXCEPT !.alive = @ \cup { cli.nextPid }, !.nextPid = @ + 1,
                                !.cmds[c].pc = "write", !.cmds[c].pid = cli.nextPid]
       [] cmd.pc = "write" ->     \* fs.writeFileSync(pidFile, child.pid); sleep(500)
             Goto(c, "verify", cmd.pid, cmd.pid)
       [] cmd.pc = "verify" ->    \* !isProcessRunning(child.pid): failed to start
             Goto(c, IF isProcessRunning(cmd.pid) THEN "returned" ELSE "cleanup", cmd.pid, cli.file)
       [] cmd.pc = "cleanup" ->   \* fs.unlinkSync(pidFile); exit(1)
             IF cli.file = 0 THEN Throw(c) ELSE Goto(c, "exited", cmd.pid, 0)
       [] OTHER -> FALSE
  /\ UNCHANGED << requestVars, boot, cfg, logFile, doctor >>

\* cmdStop(args)
CmdStop(c) ==
  LET cmd == cli.cmds[c] IN
  /\ cmd.kind = "stop"
  /\ CASE cmd.pc = "begin" ->     \* !fs.existsSync(pidFile): not running, return
             Goto(c, IF cli.file = 0 THEN "returned" ELSE "read", 0, cli.file)
       [] cmd.pc = "read" ->      \* pid = parseInt(fs.readFileSync(pidFile))
             IF cli.file = 0 THEN Throw(c) ELSE Goto(c, "probe", cli.file, cli.file)
       [] cmd.pc = "probe" ->     \* !isProcessRunning(pid): stale PID
             Goto(c, IF isProcessRunning(cmd.pid) THEN "term" ELSE "unlink", cmd.pid, cli.file)
       [] cmd.pc = "unlink" ->    \* fs.unlinkSync(pidFile); return
             IF cli.file = 0 THEN Throw(c) ELSE Goto(c, "returned", cmd.pid, 0)
       [] cmd.pc = "term" ->      \* process.kill(pid, 'SIGTERM')
             IF ~isProcessRunning(cmd.pid) THEN Throw(c)
             ELSE cli' = [cli EXCEPT !.cmds[c].pc = "poll",
                                     !.cmds[c].sent = Append(@, "SIGTERM")]
       [] cmd.pc = "poll" ->      \* await sleep(250); if (!isProcessRunning(pid))
             IF ~isProcessRunning(cmd.pid)
             THEN Goto(c, "unlink", cmd.pid, cli.file)
             ELSE cli' = [cli EXCEPT !.cmds[c].polls = @ + 1,
                                     !.cmds[c].pc = IF cmd.polls + 1 < MaxPolls THEN "poll"
                                                    ELSE "kill"]
       [] cmd.pc = "kill" ->      \* process.kill(pid, 'SIGKILL'); sleep(500)
             IF ~isProcessRunning(cmd.pid) THEN Throw(c)
             ELSE cli' = [cli EXCEPT !.alive = @ \ { cmd.pid }, !.cmds[c].pc = "exists",
                                     !.cmds[c].sent = Append(@, "SIGKILL")]
       [] cmd.pc = "exists" ->    \* if (fs.existsSync(pidFile))
             Goto(c, IF cli.file = 0 THEN "returned" ELSE "unlink", cmd.pid, cli.file)
       [] OTHER -> FALSE
  /\ UNCHANGED << requestVars, boot, cfg, logFile, doctor >>

\* a daemon ends: gracefulStop after SIGTERM, a failed start, a crash
DaemonExit(p) ==
  /\ p \in cli.alive
  /\ cli' = [cli EXCEPT !.alive = @ \ { p }]
  /\ UNCHANGED << requestVars, boot, cfg, logFile, doctor >>

CliSpec ==
  CliInit /\ [][\/ \E c \in 1..MaxCmds : CmdStart(c)
                \/ \E c \in 1..MaxCmds : CmdStop(c)
                \/ \E p \in 1..(MaxCmds + 1) : DaemonExit(p)]_vars

\* C38: with the start and stop commands interleaved in any way, at most one
\* daemon is alive at any time, and no command spawns a daemon while the PID
\* file names a running process
C38_AtMostOneDaemon ==
  /\ [](Cardinality(cli.alive) <= 1)
  /\ [][cli'.alive \ cli.alive # {} => ~(cli.file # 0 /\ cli.file \in cli.alive)]_vars

\* C39: the step by which a stop command returns leaves no PID file and the
\* process whose PID the command read is not running, on each of its paths;
\* a step that sends SIGKILL is taken by a command that has sent SIGTERM and
\* nothing else and whose 20 polls all found the process alive
C39_StopLeavesNothingBehind ==
  [][\A c \in 1..MaxCmds :
       LET before == cli.cmds[c]
           after == cli'.cmds[c]
       IN  /\ (before.kind = "stop" /\ before.pc # "returned" /\ after.pc = "returned")
                => (cli'.file = 0 /\ after.pid \notin cli'.alive)
           /\ (after.sent # before.sent /\ after.sent[Len(after.sent)] = "SIGKILL")
                => (before.sent = << "SIGTERM" >> /\ before.polls = 20)]_vars

\* C39 witness: a stop command has returned after SIGTERM, 20 polls that
\* found the daemon alive, and SIGKILL, and the PID file is gone
C39_Witness ==
  \E c \in 1..MaxCmds :
    /\ cli.cmds[c].kind = "stop" /\ cli.cmds[c].pc = "returned"
    /\ cli.cmds[c].sent = << "SIGTERM", "SIGKILL" >>
    /\ cli.cmds[c].polls = 20
    /\ cli.file = 0 /\ cli.cmds[c].pid \notin cli.alive

\* a stop command has returned on each of the other paths
C39_ReturnedOnEveryPath ==
  /\ \E c \in 1..MaxCmds : cli.cmds[c].kind = "stop" /\ cli.cmds[c].pc = "returned"
                               /\ cli.cmds[c].pid = 0
  /\ \E c \in 1..MaxCmds : cli.cmds[c].kind = "stop" /\ cli.cmds[c].pc = "returned"
                               /\ cli.cmds[c].pid # 0 /\ cli.cmds[c].sent = << >>
====
